---- MODULE Spec2Model ----
(***************************************************************************)
(* A model of ojster's decryption request handler (handlePost and its two  *)
(* dispatch branches), of the unseal operation it calls, and of keypair    *)
(* generation.                                                             *)
(*                                                                         *)
(* Strings are sequences of one-character strings, so that the regular     *)
(* expressions, prefix tests and the .env formatting of the source can be  *)
(* computed character by character.  Byte strings produced by base64       *)
(* decoding are represented by their base64 text.                          *)
(***************************************************************************)
EXTENDS Integers, Sequences, FiniteSets, TLC

\* ------------------------------------------------------------------------
\* Bounds of the model
\* ------------------------------------------------------------------------

\* Largest number of entries in an enumerated request map.
MaxKeys == 2

\* Granularity, in seconds, at which the passage of time is observed.
TickSecs == 10

\* The number of keys given to the unseal command is at most MaxReq.
MaxReq == 2

\* The longest byte buffer the codec is given.
MaxBuf == 3

\* The number of requests the server handles at once.
MaxInv == 2

\* The number of retries of the client that are followed.
MaxRetry == 7

\* ------------------------------------------------------------------------
\* Program constants
\* ------------------------------------------------------------------------

\* const maxBytes = 10 * 1024 * 1024
maxBytes == 10485760

\* context.WithTimeout(context.Background(), 30*time.Second)
TimeoutSecs == 30

\* prefix = "OJSTER-1:"
prefix == <<"O", "J", "S", "T", "E", "R", "-", "1", ":">>

\* sep = ":"
sep == <<":">>

\* ------------------------------------------------------------------------
\* Characters and strings
\* ------------------------------------------------------------------------

Upper == {"A", "B", "C", "D", "E", "F", "G", "H", "I", "J", "K", "L", "M",
          "N", "O", "P", "Q", "R", "S", "T", "U", "V", "W", "X", "Y", "Z"}

Lower == {"a", "b", "c", "d", "e", "f", "g", "h", "i", "j", "k", "l", "m",
          "n", "o", "p", "q", "r", "s", "t", "u", "v", "w", "x", "y", "z"}

Digit == {"0", "1", "2", "3", "4", "5", "6", "7", "8", "9"}

\* The characters the model uses, in ASCII order (the order of Go's string
\* comparison and of sort.Strings).
Ascii ==
    <<"\t", "\n", "\f", "\r", " ", "\"", "#", "'", "+", "-", "/",
      "0", "1", "2", "3", "4", "5", "6", "7", "8", "9", ":", "=",
      "A", "B", "C", "D", "E", "F", "G", "H", "I", "J", "K", "L", "M",
      "N", "O", "P", "Q", "R", "S", "T", "U", "V", "W", "X", "Y", "Z",
      "\\", "_",
      "a", "b", "c", "d", "e", "f", "g", "h", "i", "j", "k", "l", "m",
      "n", "o", "p", "q", "r", "s", "t", "u", "v", "w", "x", "y", "z">>

Code(c) == CHOOSE i \in 1..Len(Ascii) : Ascii[i] = c

\* s < t in Go's (bytewise lexicographic) string order.
RECURSIVE StrLess(_, _)
StrLess(s, t) ==
    IF t = <<>> THEN FALSE
    ELSE IF s = <<>> THEN TRUE
    ELSE IF Head(s) = Head(t) THEN StrLess(Tail(s), Tail(t))
    ELSE Code(Head(s)) < Code(Head(t))

\* sort.Strings applied to the elements of a set of distinct strings.
RECURSIVE SortStrings(_)
SortStrings(S) ==
    IF S = {} THEN <<>>
    ELSE LET m == CHOOSE x \in S : \A y \in S \ {x} : StrLess(x, y)
         IN  <<m>> \o SortStrings(S \ {m})

\* strings.HasPrefix
HasPrefix(s, p) == Len(s) >= Len(p) /\ SubSeq(s, 1, Len(p)) = p

\* strings.HasSuffix
HasSuffix(s, p) == Len(s) >= Len(p) /\ SubSeq(s, Len(s) - Len(p) + 1, Len(s)) = p

\* strings.Contains for a one-character needle / strings.ContainsAny
ContainsAny(s, chars) == \E i \in 1..Len(s) : s[i] \in chars

Range(s) == {s[i] : i \in 1..Len(s)}

\* ------------------------------------------------------------------------
\* env.KeyNameRegex
\* ------------------------------------------------------------------------

\* A faulty variant: the pattern without its end anchor, ^[A-Z][A-Z0-9_]*
KeyNameRegexUnanchored(k) == Len(k) >= 1 /\ k[1] \in Upper

\* regexp.MustCompile(`^[A-Z][A-Z0-9_]*$`).MatchString(k)
KeyNameRegex(k) ==
    /\ Len(k) >= 1
    /\ k[1] \in Upper
    /\ \A i \in 2..Len(k) : k[i] \in Upper \cup Digit \cup {"_"}

\* ------------------------------------------------------------------------
\* JSON text, as a sequence of tokens.  Every token carries its size in
\* bytes; "ws" is a run of n whitespace bytes, "junk" any n bytes that are
\* not part of a JSON text, "pair" a member "k":"v" of an object together
\* with its separator, "pairnull" a member "k":null, "pairnum" a member
\* "k":1.
\* ------------------------------------------------------------------------

Tok(t, k, v, n) == [t |-> t, k |-> k, v |-> v, n |-> n]
LB == Tok("{", <<>>, <<>>, 1)
RB == Tok("}", <<>>, <<>>, 1)
NullTok == Tok("null", <<>>, <<>>, 4)
WS(n) == Tok("ws", <<>>, <<>>, n)
Junk(n) == Tok("junk", <<>>, <<>>, n)
Pair(k, v) == Tok("pair", k, v, Len(k) + Len(v) + 6)
PairNull(k) == Tok("pairnull", k, <<>>, Len(k) + 8)
PairNum(k) == Tok("pairnum", k, <<>>, Len(k) + 5)

RECURSIVE SizeOf(_)
SizeOf(toks) == IF toks = <<>> THEN 0 ELSE Head(toks).n + SizeOf(Tail(toks))

\* io.ReadAll(io.LimitReader(r, n)): the first n bytes of the text.  A token
\* cut in the middle leaves whitespace if it was whitespace and otherwise an
\* incomplete (hence invalid) fragment.
RECURSIVE LimitReader(_, _)
LimitReader(toks, n) ==
    IF toks = <<>> \/ n = 0 THEN <<>>
    ELSE IF Head(toks).n <= n
         THEN <<Head(toks)>> \o LimitReader(Tail(toks), n - Head(toks).n)
         ELSE IF Head(toks).t = "ws" THEN <<WS(n)>> ELSE <<Junk(n)>>

IsMember(tok) == tok.t \in {"pair", "pairnull", "pairnum"}

\* The map a sequence of object members decodes to: a later member
\* overwrites an earlier one with the same key, null stores "".
MapOfMembers(ps) ==
    [k \in {ps[i].k : i \in 1..Len(ps)} |->
        LET last == CHOOSE i \in 1..Len(ps) :
                        ps[i].k = k /\ \A j \in (i + 1)..Len(ps) : ps[j].k # k
        IN  IF ps[last].t = "pair" THEN ps[last].v ELSE <<>>]

\* json.Unmarshal(data, &m) for m of type map[string]string.
\* The literal null is accepted and leaves m nil (an empty map).
Unmarshal(toks) ==
    LET core == SelectSeq(toks, LAMBDA x : x.t # "ws")
        n == Len(core)
        mid == SubSeq(core, 2, n - 1)
    IN  IF core = <<NullTok>>
        THEN [ok |-> TRUE, m |-> <<>>]
        ELSE IF /\ n >= 2
                /\ core[1] = LB
                /\ core[n] = RB
                /\ \A i \in 1..Len(mid) : IsMember(mid[i])
                /\ \A i \in 1..Len(mid) : mid[i].t # "pairnum"
             THEN [ok |-> TRUE, m |-> MapOfMembers(mid)]
             ELSE [ok |-> FALSE, m |-> <<>>]

\* json.Marshal(m) for a map[string]string: members in sorted key order.
Marshal(m) ==
    LET ks == SortStrings(DOMAIN m)
    IN  <<LB>> \o [i \in 1..Len(ks) |-> Pair(ks[i], m[ks[i]])] \o <<RB>>

\* ------------------------------------------------------------------------
\* pqc: primitives.  A private-key file is represented by what its content
\* is: "absent" (no readable file), "badb64" (not base64), "badkey" (base64
\* of something that is not a 64-byte seed) or "valid".
\* ------------------------------------------------------------------------

PrivFileStates == {"absent", "badb64", "badkey", "valid"}

\* The alphabet of base64.StdEncoding, in the order of its 6-bit values.
B64Chars ==
    <<"A", "B", "C", "D", "E", "F", "G", "H", "I", "J", "K", "L", "M",
      "N", "O", "P", "Q", "R", "S", "T", "U", "V", "W", "X", "Y", "Z",
      "a", "b", "c", "d", "e", "f", "g", "h", "i", "j", "k", "l", "m",
      "n", "o", "p", "q", "r", "s", "t", "u", "v", "w", "x", "y", "z",
      "0", "1", "2", "3", "4", "5", "6", "7", "8", "9", "+", "/">>

B64Alphabet == Range(B64Chars)

\* The 6-bit value of an alphabet character.
B64Val(c) == (CHOOSE i \in 1..Len(B64Chars) : B64Chars[i] = c) - 1

\* base64.StdEncoding.EncodeToString(bytes): three bytes make four
\* characters, a last group of one or two bytes is padded with "=".
RECURSIVE B64Encode(_)
B64Encode(bytes) ==
    IF bytes = <<>> THEN <<>>
    ELSE LET n == Len(bytes)
             b1 == bytes[1]
             b2 == IF n >= 2 THEN bytes[2] ELSE 0
             b3 == IF n >= 3 THEN bytes[3] ELSE 0
             c1 == B64Chars[(b1 \div 4) + 1]
             c2 == B64Chars[((b1 % 4) * 16 + (b2 \div 16)) + 1]
             c3 == B64Chars[((b2 % 16) * 4 + (b3 \div 64)) + 1]
             c4 == B64Chars[(b3 % 64) + 1]
         IN  IF n = 1 THEN <<c1, c2, "=", "=">>
             ELSE IF n = 2 THEN <<c1, c2, c3, "=">>
             ELSE <<c1, c2, c3, c4>> \o B64Encode(SubSeq(bytes, 4, n))

\* The bytes that well-formed base64 text stands for.
RECURSIVE B64Bytes(_)
B64Bytes(t) ==
    IF Len(t) < 4 THEN <<>>
    ELSE LET v(i) == IF t[i] = "=" THEN 0 ELSE B64Val(t[i])
             x1 == v(1) * 4 + (v(2) \div 16)
             x2 == (v(2) % 16) * 16 + (v(3) \div 4)
             x3 == (v(3) % 4) * 64 + v(4)
         IN  (IF t[3] = "=" THEN <<x1>>
              ELSE IF t[4] = "=" THEN <<x1, x2>>
              ELSE <<x1, x2, x3>>) \o B64Bytes(SubSeq(t, 5, Len(t)))

\* base64.StdEncoding.DecodeString: "\r" and "\n" are skipped, the rest
\* must be groups of four alphabet characters, the last group possibly
\* padded with one or two "=".
B64Decode(s) ==
    LET t == SelectSeq(s, LAMBDA c : c \notin {"\r", "\n"})
        n == Len(t)
        okAt(i) == \/ t[i] \in B64Alphabet
                   \/ /\ t[i] = "="
                      /\ i >= n - 1
                      /\ i >= 3
                      /\ (i = n - 1 => t[n] = "=")
        ok == n % 4 = 0 /\ \A i \in 1..n : okAt(i)
    IN  [ok |-> ok, bytes |-> IF ok THEN B64Bytes(t) ELSE <<>>]

\* The byte values of the model's characters (ASCII), in the order of Ascii.
AsciiCodes ==
    <<9, 10, 12, 13, 32, 34, 35, 39, 43, 45, 47,
      48, 49, 50, 51, 52, 53, 54, 55, 56, 57, 58, 61,
      65, 66, 67, 68, 69, 70, 71, 72, 73, 74, 75, 76, 77,
      78, 79, 80, 81, 82, 83, 84, 85, 86, 87, 88, 89, 90,
      92, 95,
      97, 98, 99, 100, 101, 102, 103, 104, 105, 106, 107, 108, 109,
      110, 111, 112, 113, 114, 115, 116, 117, 118, 119, 120, 121, 122>>

\* []byte(s) and string(b) between the model's characters and bytes.
BytesOf(s) == [i \in 1..Len(s) |-> AsciiCodes[Code(s[i])]]

StringOf(b) ==
    [i \in 1..Len(b) |->
        IF \E j \in 1..Len(Ascii) : AsciiCodes[j] = b[i]
        THEN Ascii[CHOOSE j \in 1..Len(Ascii) : AsciiCodes[j] = b[i]]
        ELSE "?"]

\* mlkem.CiphertextSize768 (1088), scaled to the model's three-byte KEM
\* ciphertexts.
CiphertextSize == 3

\* ek.Encapsulate() under the public key that belongs to the "valid" private
\* key: the shared key and the ciphertext that carries it.
Encapsulate == [sharedKey |-> "shared", ct |-> <<0, 0, 0>>]

\* dk.Decapsulate(ct): fails only for a ciphertext of the wrong size;
\* a ciphertext of the right size that was not made for this key yields
\* an unrelated key (implicit rejection).
Decapsulate(ct) ==
    IF Len(ct) # CiphertextSize THEN [ok |-> FALSE, key |-> "none"]
    ELSE IF ct = Encapsulate.ct THEN [ok |-> TRUE, key |-> Encapsulate.sharedKey]
    ELSE [ok |-> TRUE, key |-> "other"]

\* nonceSizeGCM (12), scaled to one byte; the tag (16 bytes) to one byte.
nonceSizeGCM == 1

\* AES-256-GCM, abstracted: the key and the nonce shift every byte, and the
\* tag is a checksum of key, nonce and ciphertext.
KeyStream(key, nonce) == (IF key = "shared" THEN 7 ELSE 11) + nonce

RECURSIVE SumBytes(_)
SumBytes(b) == IF b = <<>> THEN 0 ELSE Head(b) + SumBytes(Tail(b))

GcmTag(key, nonce, ct) == (SumBytes(ct) + 3 * KeyStream(key, nonce)) % 256

\* encryptAESGCM(key, plaintext) with the nonce rand.Reader gave:
\* nonce || ciphertext || tag.
encryptAESGCM(key, plaintext, nonce) ==
    LET ct == [i \in 1..Len(plaintext) |->
                  (plaintext[i] + KeyStream(key, nonce)) % 256]
    IN  <<nonce>> \o ct \o <<GcmTag(key, nonce, ct)>>

\* decryptAESGCM(key, blob): a blob shorter than the nonce is an error, and
\* so is one whose tag does not verify under this key.
decryptAESGCM(key, blob) ==
    IF Len(blob) < nonceSizeGCM + 1 THEN [ok |-> FALSE, pt |-> <<>>]
    ELSE LET nonce == blob[1]
             ct == SubSeq(blob, 2, Len(blob) - 1)
         IN  IF blob[Len(blob)] # GcmTag(key, nonce, ct)
             THEN [ok |-> FALSE, pt |-> <<>>]
             ELSE [ok |-> TRUE,
                   pt |-> StringOf([i \in 1..Len(ct) |->
                              (ct[i] + 512 - KeyStream(key, nonce)) % 256])]

\* Plaintexts, and the text of KEM ciphertexts and AEAD blobs: CtGood carries
\* the shared key, CtOther has the right size but was made for another key;
\* BlobP and BlobQ hold PlainP and PlainQ under the shared key.
PlainP == <<"p">>
PlainQ == <<"q">>
CtGood == B64Encode(Encapsulate.ct)
CtOther == <<"E", "E", "E", "E">>
BlobP == B64Encode(encryptAESGCM("shared", BytesOf(PlainP), 0))
BlobQ == B64Encode(encryptAESGCM("shared", BytesOf(PlainQ), 0))

NoMsg == [kind |-> "", key |-> <<>>]
Msg(kind, key) == [kind |-> kind, key |-> key]

\* A faulty variant: a private key file that cannot be read exits with 2.
loadDecapsulationKeyExit2(priv) ==
    IF priv = "absent"
    THEN [code |-> 2, msg |-> Msg("failed to read private key file", <<>>)]
    ELSE IF priv = "badb64"
    THEN [code |-> 1, msg |-> Msg("invalid base64 private key", <<>>)]
    ELSE IF priv = "badkey"
    THEN [code |-> 1, msg |-> Msg("invalid private key", <<>>)]
    ELSE [code |-> 0, msg |-> NoMsg]

\* loadDecapsulationKey(privPath, errw)
loadDecapsulationKey(priv) ==
    IF priv = "absent"
    THEN [code |-> 1, msg |-> Msg("failed to read private key file", <<>>)]
    ELSE IF priv = "badb64"
    THEN [code |-> 1, msg |-> Msg("invalid base64 private key", <<>>)]
    ELSE IF priv = "badkey"
    THEN [code |-> 1, msg |-> Msg("invalid private key", <<>>)]
    ELSE [code |-> 0, msg |-> NoMsg]

\* strings.SplitN(payload, sep, 2)
SplitN2(payload) ==
    IF \E i \in 1..Len(payload) : payload[i] = sep[1]
    THEN LET i == CHOOSE i \in 1..Len(payload) :
                      /\ payload[i] = sep[1]
                      /\ \A j \in 1..(i - 1) : payload[j] # sep[1]
         IN  <<SubSeq(payload, 1, i - 1), SubSeq(payload, i + 1, Len(payload))>>
    ELSE <<payload>>

\* A faulty variant: the KEM ciphertext is decapsulated before the AEAD blob
\* is decoded.
decryptOneDecapFirst(k, stored) ==
    IF ~HasPrefix(stored, prefix)
    THEN [ok |-> FALSE, msg |-> Msg("does not appear to be sealed", k), pt |-> <<>>]
    ELSE
    LET parts == SplitN2(SubSeq(stored, Len(prefix) + 1, Len(stored)))
    IN  IF Len(parts) # 2
        THEN [ok |-> FALSE, msg |-> Msg("sealed value malformed", k), pt |-> <<>>]
        ELSE
        LET ct == B64Decode(parts[1])
            blob == B64Decode(parts[2])
            sk == Decapsulate(ct.bytes)
            pt == decryptAESGCM(sk.key, blob.bytes)
        IN  IF ~ct.ok
            THEN [ok |-> FALSE, msg |-> Msg("invalid base64 mlkem ciphertext", k), pt |-> <<>>]
            ELSE IF ~sk.ok
            THEN [ok |-> FALSE, msg |-> Msg("decapsulation failed", k), pt |-> <<>>]
            ELSE IF ~blob.ok
            THEN [ok |-> FALSE, msg |-> Msg("invalid base64 gcm blob", k), pt |-> <<>>]
            ELSE IF ~pt.ok
            THEN [ok |-> FALSE, msg |-> Msg("decryption failed", k), pt |-> <<>>]
            ELSE [ok |-> TRUE, msg |-> NoMsg, pt |-> pt.pt]

\* The body of decryptCore's loop for one key: the first failing step
\* decides the message.
decryptOne(k, stored) ==
    IF ~HasPrefix(stored, prefix)
    THEN [ok |-> FALSE, msg |-> Msg("does not appear to be sealed", k), pt |-> <<>>]
    ELSE
    LET parts == SplitN2(SubSeq(stored, Len(prefix) + 1, Len(stored)))
    IN  IF Len(parts) # 2
        THEN [ok |-> FALSE, msg |-> Msg("sealed value malformed", k), pt |-> <<>>]
        ELSE
        LET ct == B64Decode(parts[1])
            blob == B64Decode(parts[2])
            sk == Decapsulate(ct.bytes)
            pt == decryptAESGCM(sk.key, blob.bytes)
        IN  IF ~ct.ok
            THEN [ok |-> FALSE, msg |-> Msg("invalid base64 mlkem ciphertext", k), pt |-> <<>>]
            ELSE IF ~blob.ok
            THEN [ok |-> FALSE, msg |-> Msg("invalid base64 gcm blob", k), pt |-> <<>>]
            ELSE IF ~sk.ok
            THEN [ok |-> FALSE, msg |-> Msg("decapsulation failed", k), pt |-> <<>>]
            ELSE IF ~pt.ok
            THEN [ok |-> FALSE, msg |-> Msg("decryption failed", k), pt |-> <<>>]
            ELSE [ok |-> TRUE, msg |-> NoMsg, pt |-> pt.pt]

\* decryptCore's loop over the selected keys, from position i on, with the
\* values decrypted so far.
RECURSIVE decryptLoop(_, _, _, _)
decryptLoop(envMap, keys, i, decrypted) ==
    IF i > Len(keys)
    THEN [out |-> decrypted, keys |-> keys, code |-> 0, msg |-> NoMsg]
    ELSE LET r == decryptOne(keys[i], envMap[keys[i]])
         IN  IF ~r.ok
             THEN [out |-> <<>>, keys |-> <<>>, code |-> 1, msg |-> r.msg]
             ELSE decryptLoop(envMap, keys, i + 1,
                              [k \in DOMAIN decrypted \cup {keys[i]} |->
                                  IF k = keys[i] THEN r.pt ELSE decrypted[k]])

\* The elements of a sequence in reverse order.
Reverse(s) == [i \in 1..Len(s) |-> s[Len(s) + 1 - i]]

\* A faulty variant: the selected keys are not brought into ascending order.
decryptCoreUnsorted(envMap, keys) ==
    LET sel == IF keys = <<>>
               THEN Reverse(SortStrings({k \in DOMAIN envMap : HasPrefix(envMap[k], prefix)}))
               ELSE keys
        missing == SelectSeq(sel, LAMBDA k : k \notin DOMAIN envMap)
    IN  IF sel = <<>>
        THEN [out |-> <<>>, keys |-> <<>>, code |-> 0, msg |-> NoMsg]
        ELSE IF missing # <<>>
        THEN [out |-> <<>>, keys |-> <<>>, code |-> 2,
              msg |-> Msg("missing keys", missing)]
        ELSE decryptLoop(envMap, sel, 1, <<>>)

\* A faulty variant: a source without sealed values is an error.
decryptCoreEmptyFails(envMap, keys) ==
    LET sel == IF keys = <<>>
               THEN SortStrings({k \in DOMAIN envMap : HasPrefix(envMap[k], prefix)})
               ELSE keys
        missing == SelectSeq(sel, LAMBDA k : k \notin DOMAIN envMap)
    IN  IF sel = <<>>
        THEN [out |-> <<>>, keys |-> <<>>, code |-> 1,
              msg |-> Msg("no sealed entries", <<>>)]
        ELSE IF missing # <<>>
        THEN [out |-> <<>>, keys |-> <<>>, code |-> 2,
              msg |-> Msg("missing keys", missing)]
        ELSE decryptLoop(envMap, sel, 1, <<>>)

\* decryptCore(envMap, dk, keys, sourceDesc)
decryptCore(envMap, keys) ==
    LET sel == IF keys = <<>>
               THEN SortStrings({k \in DOMAIN envMap : HasPrefix(envMap[k], prefix)})
               ELSE keys
        missing == SelectSeq(sel, LAMBDA k : k \notin DOMAIN envMap)
    IN  IF sel = <<>>
        THEN [out |-> <<>>, keys |-> <<>>, code |-> 0, msg |-> NoMsg]
        ELSE IF missing # <<>>
        THEN [out |-> <<>>, keys |-> <<>>, code |-> 2,
              msg |-> Msg("missing keys", missing)]
        ELSE decryptLoop(envMap, sel, 1, <<>>)

\* The error value the handler's UnsealMap wraps a failure in: a private
\* key that cannot be loaded is ErrConfig, missing keys are ErrMissingKeys,
\* every per-value failure is ErrUnseal.
UnsealErr(stage, code) ==
    IF code = 0 THEN "nil"
    ELSE IF stage = "load" THEN "ErrConfig"
    ELSE IF code = 2 THEN "ErrMissingKeys"
    ELSE "ErrUnseal"

\* pqc.UnsealMap(envMap, privPath, keys)
UnsealMap(envMap, priv, keys) ==
    LET dk == loadDecapsulationKey(priv)
        r == decryptCore(envMap, keys)
    IN  IF dk.code # 0
        THEN [out |-> <<>>, code |-> dk.code, msg |-> dk.msg,
              err |-> UnsealErr("load", dk.code)]
        ELSE IF r.code # 0
        THEN [out |-> <<>>, code |-> r.code, msg |-> r.msg,
              err |-> UnsealErr("decrypt", r.code)]
        ELSE [out |-> r.out, code |-> 0, msg |-> NoMsg, err |-> "nil"]

\* ------------------------------------------------------------------------
\* env.FormatEnvEntry
\* ------------------------------------------------------------------------

\* escapeDoubleQuoted(s)
RECURSIVE escapeDoubleQuoted(_)
escapeDoubleQuoted(s) ==
    IF s = <<>> THEN <<>>
    ELSE (CASE Head(s) = "\\" -> <<"\\", "\\">>
            [] Head(s) = "\"" -> <<"\\", "\"">>
            [] Head(s) = "\n" -> <<"\\", "n">>
            [] Head(s) = "\r" -> <<"\\", "r">>
            [] Head(s) = "\t" -> <<"\\", "t">>
            [] OTHER -> <<Head(s)>>) \o escapeDoubleQuoted(Tail(s))

\* FormatEnvEntry(key, value)
FormatEnvEntry(key, value) ==
    IF ContainsAny(value, {"\n"})
    THEN IF ContainsAny(value, {"'"}) \/ HasSuffix(value, <<"\n">>)
         THEN key \o <<"=", "\"">> \o escapeDoubleQuoted(value) \o <<"\"">>
         ELSE key \o <<"=", "'">> \o value \o <<"'">>
    ELSE IF value = <<>>
    THEN key \o <<"=">>
    ELSE IF ContainsAny(value, {" ", "#", "\"", "'", "\\", "\t", "\r"})
    THEN key \o <<"=", "\"">> \o escapeDoubleQuoted(value) \o <<"\"">>
    ELSE key \o <<"=">> \o value

\* strings.Join(lines, "\n")
RECURSIVE Join(_)
Join(lines) ==
    IF lines = <<>> THEN <<>>
    ELSE IF Len(lines) = 1 THEN lines[1]
    ELSE lines[1] \o <<"\n">> \o Join(Tail(lines))

\* ------------------------------------------------------------------------
\* env.ParseEnvFile
\* ------------------------------------------------------------------------

\* \s of Go's regexp syntax; strings.TrimSpace trims the same characters of
\* the model's alphabet.
Space == {"\t", "\n", "\f", "\r", " "}

IdentStart == Upper \cup Lower \cup {"_"}
IdentChar == IdentStart \cup Digit

\* strings.TrimLeft(s, cutset) / strings.TrimRight(s, cutset)
RECURSIVE TrimLeft(_, _)
TrimLeft(s, cut) ==
    IF s # <<>> /\ Head(s) \in cut THEN TrimLeft(Tail(s), cut) ELSE s

RECURSIVE TrimRight(_, _)
TrimRight(s, cut) ==
    IF s # <<>> /\ s[Len(s)] \in cut
    THEN TrimRight(SubSeq(s, 1, Len(s) - 1), cut)
    ELSE s

\* strings.TrimSpace
TrimSpace(s) == TrimRight(TrimLeft(s, Space), Space)

\* The longest prefix of s made of characters of set.
RECURSIVE SpanLen(_, _)
SpanLen(s, set) ==
    IF s # <<>> /\ Head(s) \in set THEN 1 + SpanLen(Tail(s), set) ELSE 0

Drop(s, n) == SubSeq(s, n + 1, Len(s))

\* keyRe = ^\s*([A-Za-z_][A-Za-z0-9_]*)\s*([:=])\s*(.*)$ applied to a line:
\* whether it matches, the key (group 1) and the raw value (group 3).
keyRe(line) ==
    LET a == TrimLeft(line, Space)
        n == SpanLen(a, IdentChar)
        b == TrimLeft(Drop(a, n), Space)
    IN  IF a # <<>> /\ a[1] \in IdentStart /\ b # <<>> /\ b[1] \in {":", "="}
        THEN [ok |-> TRUE, k |-> SubSeq(a, 1, n), rawVal |-> TrimLeft(Tail(b), Space)]
        ELSE [ok |-> FALSE, k |-> <<>>, rawVal |-> <<>>]

\* bufio.Scanner with ScanLines over the text: lines end at "\n", one
\* trailing "\r" is dropped, a final line without newline counts if it is
\* not empty.
RECURSIVE ScanLines(_)
ScanLines(text) ==
    IF text = <<>> THEN <<>>
    ELSE LET n == SpanLen(text, {c \in Range(text) : c # "\n"})
             raw == SubSeq(text, 1, n)
             line == IF raw # <<>> /\ raw[Len(raw)] = "\r"
                     THEN SubSeq(raw, 1, Len(raw) - 1) ELSE raw
         IN  <<line>> \o ScanLines(Drop(text, n + 1))

\* The loop that decodes a double-quoted value, from position idx on.
RECURSIVE unquoteDouble(_, _, _)
unquoteDouble(t, idx, escaped) ==
    IF idx > Len(t) THEN <<>>
    ELSE IF escaped
    THEN (CASE t[idx] = "n" -> <<"\n">>
            [] t[idx] = "r" -> <<"\r">>
            [] t[idx] = "t" -> <<"\t">>
            [] OTHER -> <<t[idx]>>) \o unquoteDouble(t, idx + 1, FALSE)
    ELSE IF t[idx] = "\\" THEN unquoteDouble(t, idx + 1, TRUE)
    ELSE IF t[idx] = "\"" THEN <<>>
    ELSE <<t[idx]>> \o unquoteDouble(t, idx + 1, FALSE)

\* strings.ReplaceAll(s, old, new) for a two-character old
RECURSIVE ReplaceAll(_, _, _)
ReplaceAll(s, old, new) ==
    IF s = <<>> THEN <<>>
    ELSE IF HasPrefix(s, old) THEN new \o ReplaceAll(Drop(s, Len(old)), old, new)
    ELSE <<Head(s)>> \o ReplaceAll(Tail(s), old, new)

\* strings.Index(s, " #"), 0 when absent (positions count from 1)
IndexSpaceHash(s) ==
    IF \E i \in 1..(Len(s) - 1) : s[i] = " " /\ s[i + 1] = "#"
    THEN CHOOSE i \in 1..(Len(s) - 1) :
             /\ s[i] = " " /\ s[i + 1] = "#"
             /\ \A j \in 1..(i - 1) : ~(s[j] = " " /\ s[j + 1] = "#")
    ELSE 0

\* The value of a single-line entry.
singleLineValue(rawVal) ==
    LET trimmed == TrimSpace(rawVal)
        idx == IndexSpaceHash(trimmed)
    IN  IF trimmed = <<>> THEN <<>>
        ELSE IF trimmed[1] = "\"" THEN unquoteDouble(trimmed, 2, FALSE)
        ELSE IF trimmed[1] = "'" /\ HasSuffix(TrimRight(trimmed, {" ", "\t"}), <<"'">>)
        THEN LET t1 == Tail(trimmed)
                 t2 == IF HasSuffix(t1, <<"'">>) THEN SubSeq(t1, 1, Len(t1) - 1) ELSE t1
             IN  ReplaceAll(ReplaceAll(t2, <<"\\", "'">>, <<"'">>),
                            <<"\\", "\\">>, <<"\\">>)
        ELSE IF idx # 0 THEN TrimSpace(SubSeq(trimmed, 1, idx - 1))
        ELSE trimmed

\* Whether the raw value opens a single-quoted multi-line block.
opensBlock(rawVal) ==
    LET rawTrim == TrimLeft(rawVal, {" ", "\t"})
    IN  /\ HasPrefix(rawTrim, <<"'">>)
        /\ ~HasSuffix(TrimRight(rawTrim, {" ", "\t"}), <<"'">>)

\* The inner loop of the multi-line branch from line j on: the parts
\* collected and the line to go on with.
RECURSIVE blockParts(_, _, _)
blockParts(lines, j, parts) ==
    IF j > Len(lines) THEN [parts |-> parts, next |-> j]
    ELSE IF keyRe(lines[j]).ok THEN [parts |-> parts, next |-> j]
    ELSE IF HasSuffix(lines[j], <<"'">>)
    THEN [parts |-> Append(parts, SubSeq(lines[j], 1, Len(lines[j]) - 1)),
          next |-> j + 1]
    ELSE blockParts(lines, j + 1, Append(parts, lines[j]))

MapSet(m, k, v) == [x \in DOMAIN m \cup {k} |-> IF x = k THEN v ELSE m[x]]

\* parseLines(lines), from line i on, with the entries found so far.
RECURSIVE parseFrom(_, _, _)
parseFrom(lines, i, out) ==
    IF i > Len(lines) THEN out
    ELSE
    LET line == lines[i]
        trim == TrimSpace(line)
        m == keyRe(line)
        b == blockParts(lines, i + 1,
                        <<Tail(TrimLeft(m.rawVal, {" ", "\t"}))>>)
    IN  IF trim = <<>> \/ trim[1] = "#" THEN parseFrom(lines, i + 1, out)
        ELSE IF ~m.ok THEN parseFrom(lines, i + 1, out)
        ELSE IF opensBlock(m.rawVal)
        THEN parseFrom(lines, b.next, MapSet(out, m.k, Join(b.parts)))
        ELSE parseFrom(lines, i + 1, MapSet(out, m.k, singleLineValue(m.rawVal)))

\* parseLines(lines)
parseLines(lines) == parseFrom(lines, 1, <<>>)

\* ParseEnvFile(path) for a file with the given text
ParseEnvFile(text) == parseLines(ScanLines(text))

\* unsealCore(envMap, dk, keys, jsonOut = true, ...): exit status and what
\* is written to standard output.
unsealCoreJSON(envMap, keys) ==
    LET r == decryptCore(envMap, keys)
    IN  IF r.code # 0
        THEN [code |-> r.code, out |-> <<>>]
        ELSE [code |-> 0, out |-> Marshal(r.out)]

\* UnsealFromFiles(inPath, privPath, keys, jsonOut = true, ...) for an env
\* file with the given text.
UnsealFromFiles(text, priv, keys) ==
    IF loadDecapsulationKey(priv).code # 0
    THEN [code |-> loadDecapsulationKey(priv).code, out |-> <<>>]
    ELSE unsealCoreJSON(ParseEnvFile(text), keys)

\* The text unsealCore builds when jsonOut is false: one FormatEnvEntry line
\* per resolved key, each followed by a newline.
RECURSIVE EntryLines(_, _)
EntryLines(resolvedKeys, decrypted) ==
    IF resolvedKeys = <<>> THEN <<>>
    ELSE FormatEnvEntry(Head(resolvedKeys), decrypted[Head(resolvedKeys)])
             \o <<"\n">> \o EntryLines(Tail(resolvedKeys), decrypted)

\* A faulty variant: the lines are written in the order of the decrypted map's
\* keys, ascending, one line per key of the map.
unsealCoreMapOrder(envMap, keys, jsonOut) ==
    LET r == decryptCore(envMap, keys)
    IN  IF r.code # 0
        THEN [code |-> r.code, err |-> r.msg, out |-> <<>>]
        ELSE IF jsonOut
        THEN [code |-> 0, err |-> NoMsg, out |-> Marshal(r.out)]
        ELSE [code |-> 0, err |-> NoMsg,
              out |-> TrimRight(EntryLines(SortStrings(DOMAIN r.out), r.out), {"\n"})]

\* The keys at the front of a selection whose values decrypt.
RECURSIVE decryptedPrefix(_, _)
decryptedPrefix(envMap, sel) ==
    IF sel = <<>> \/ Head(sel) \notin DOMAIN envMap
                  \/ ~decryptOne(Head(sel), envMap[Head(sel)]).ok
    THEN <<>>
    ELSE <<Head(sel)>> \o decryptedPrefix(envMap, Tail(sel))

\* A faulty variant: each line is written as soon as its key is decrypted,
\* so the keys before a failing one are on the output.
unsealCoreStreaming(envMap, keys, jsonOut) ==
    LET r == decryptCore(envMap, keys)
        sel == IF keys = <<>>
               THEN SortStrings({k \in DOMAIN envMap : HasPrefix(envMap[k], prefix)})
               ELSE keys
        done == decryptedPrefix(envMap, sel)
        pts == [k \in Range(done) |-> decryptOne(k, envMap[k]).pt]
    IN  IF r.code = 1
        THEN [code |-> 1, err |-> r.msg,
              out |-> IF jsonOut /\ done # <<>> THEN Marshal(pts)
                      ELSE TrimRight(EntryLines(done, pts), {"\n"})]
        ELSE IF r.code # 0
        THEN [code |-> r.code, err |-> r.msg, out |-> <<>>]
        ELSE IF jsonOut
        THEN [code |-> 0, err |-> NoMsg, out |-> Marshal(r.out)]
        ELSE [code |-> 0, err |-> NoMsg,
              out |-> TrimRight(EntryLines(r.keys, r.out), {"\n"})]

\* unsealCore(envMap, dk, keys, jsonOut, outw, errw, sourceDesc): the exit
\* code, what is written to errw and what is written to outw (JSON tokens
\* when jsonOut, else the characters of the lines).
unsealCore(envMap, keys, jsonOut) ==
    LET r == decryptCore(envMap, keys)
    IN  IF r.code # 0
        THEN [code |-> r.code, err |-> r.msg, out |-> <<>>]
        ELSE IF jsonOut
        THEN [code |-> 0, err |-> NoMsg, out |-> Marshal(r.out)]
        ELSE [code |-> 0, err |-> NoMsg,
              out |-> TrimRight(EntryLines(r.keys, r.out), {"\n"})]

\* UnsealFromFiles(inPath, privPath, keys, jsonOut, outw, errw) for an env
\* file that ParseEnvFile reads as envMap.
UnsealFromSource(envMap, priv, keys, jsonOut) ==
    IF loadDecapsulationKey(priv).code # 0
    THEN [code |-> loadDecapsulationKey(priv).code,
          err |-> loadDecapsulationKey(priv).msg, out |-> <<>>]
    ELSE unsealCore(envMap, keys, jsonOut)

\* ------------------------------------------------------------------------
\* env.UpdateEnvFile
\* ------------------------------------------------------------------------

\* The loop that passes over a single-quoted multi-line block from line j
\* on: it ends behind the first line that ends with a single quote, or at
\* the end of the file.
RECURSIVE skipBlock(_, _)
skipBlock(lines, j) ==
    IF j > Len(lines) THEN j
    ELSE IF HasSuffix(lines[j], <<"'">>) THEN j + 1
    ELSE skipBlock(lines, j + 1)

\* UpdateEnvFile's walk over the lines from line i on: comments, blank
\* lines, lines that are no entry and the entries of other keys (with their
\* blocks) are copied; every entry of key is replaced by the new entry.
RECURSIVE updateFrom(_, _, _, _, _, _)
updateFrom(lines, i, key, value, outLines, found) ==
    IF i > Len(lines) THEN [outLines |-> outLines, found |-> found]
    ELSE
    LET line == lines[i]
        trim == TrimSpace(line)
        m == keyRe(line)
        next == IF opensBlock(m.rawVal) THEN skipBlock(lines, i + 1) ELSE i + 1
    IN  IF trim = <<>> \/ trim[1] = "#" \/ ~m.ok
        THEN updateFrom(lines, i + 1, key, value, Append(outLines, line), found)
        ELSE IF m.k = key
        THEN updateFrom(lines, next, key, value,
                        Append(outLines, FormatEnvEntry(key, value)), TRUE)
        ELSE updateFrom(lines, next, key, value,
                        outLines \o SubSeq(lines, i, next - 1), found)

\* Every line followed by a newline.
RECURSIVE WriteLines(_)
WriteLines(outLines) ==
    IF outLines = <<>> THEN <<>>
    ELSE Head(outLines) \o <<"\n">> \o WriteLines(Tail(outLines))

\* The bytes UpdateEnvFile(path, key, value) hands to WriteFileAtomic, given
\* the lines it read from the file.
UpdateEnvFileData(lines, key, value) ==
    LET w == updateFrom(lines, 1, key, value, <<>>, FALSE)
    IN  WriteLines(IF w.found THEN w.outLines
                   ELSE Append(w.outLines, FormatEnvEntry(key, value)))

\* ------------------------------------------------------------------------
\* pqc.SealWithPlaintext
\* ------------------------------------------------------------------------

\* A public-key file is represented by what its content is, like a
\* private-key file; "valid" is the public key of the "valid" private key.
PubFileStates == {"absent", "badb64", "badkey", "valid"}

\* A faulty variant: the two parts are put together in the wrong order.
buildSealedSwapped(mlkemCiphertext, gcmBlob) ==
    prefix \o B64Encode(gcmBlob) \o sep \o B64Encode(mlkemCiphertext)

\* sealed := prefix + mlkemB64 + sep + gcmB64
buildSealed(mlkemCiphertext, gcmBlob) ==
    prefix \o B64Encode(mlkemCiphertext) \o sep \o B64Encode(gcmBlob)

\* decryptCore's parse of a stored value that has the prefix: the prefix is
\* cut off, the rest split at the first separator.
parseSealed(stored) ==
    LET parts == SplitN2(SubSeq(stored, Len(prefix) + 1, Len(stored)))
    IN  [ok |-> HasPrefix(stored, prefix) /\ Len(parts) = 2, parts |-> parts]

\* A faulty variant: the plaintext is encrypted under a key that is not the
\* encapsulated one.
sealValueOtherKey(pub, plaintext, nonce, encOk) ==
    IF pub = "absent" THEN [err |-> "failed to read public key file", sealed |-> <<>>]
    ELSE IF pub = "badb64" THEN [err |-> "invalid base64 public key", sealed |-> <<>>]
    ELSE IF pub = "badkey" THEN [err |-> "invalid public key", sealed |-> <<>>]
    ELSE IF ~encOk THEN [err |-> "encryption failed", sealed |-> <<>>]
    ELSE [err |-> "nil",
          sealed |-> buildSealed(Encapsulate.ct,
                                 encryptAESGCM("other", BytesOf(plaintext), nonce))]

\* SealWithPlaintext up to the call of env.UpdateEnvFile: the error it
\* returns 1 for, or the sealed value.  encOk tells whether encryptAESGCM
\* got its nonce from rand.Reader.
sealValue(pub, plaintext, nonce, encOk) ==
    IF pub = "absent" THEN [err |-> "failed to read public key file", sealed |-> <<>>]
    ELSE IF pub = "badb64" THEN [err |-> "invalid base64 public key", sealed |-> <<>>]
    ELSE IF pub = "badkey" THEN [err |-> "invalid public key", sealed |-> <<>>]
    ELSE IF ~encOk THEN [err |-> "encryption failed", sealed |-> <<>>]
    ELSE [err |-> "nil",
          sealed |-> buildSealed(Encapsulate.ct,
                                 encryptAESGCM(Encapsulate.sharedKey,
                                               BytesOf(plaintext), nonce))]

\* ------------------------------------------------------------------------
\* Inputs: key names, request values, request bodies, backend results
\* ------------------------------------------------------------------------

KeyA == <<"A">>
KeyB == <<"B">>
KeyX == <<"X">>
KeyLower == <<"a">>
KeyDash == <<"B", "-", "N">>

ReqKeyNames == {KeyA, KeyB, KeyLower, KeyDash}

\* The key names among them that are outside the grammar ^[A-Z][A-Z0-9_]*$.
BadKeyNames == {KeyLower, KeyDash}

ValPlain == <<"v">>
ValSealedP == prefix \o CtGood \o sep \o BlobP
ValMalformed == prefix \o <<"x">>
ValFF == <<"\f">> \o ValSealedP
ValBadKem == prefix \o <<"!">> \o sep \o BlobP
ValBadBlob == prefix \o CtGood \o sep \o <<"!">>
ValWrongSize == prefix \o <<"Z", "Z", "Y", "=">> \o sep \o BlobP
ValOtherKey == prefix \o CtOther \o sep \o BlobP

ReqValues == {ValPlain, ValSealedP, ValMalformed, ValFF, ValBadKem, ValBadBlob,
              ValWrongSize, ValOtherKey}

RequestMaps ==
    UNION {[S -> ReqValues] :
             S \in {T \in SUBSET ReqKeyNames : Cardinality(T) <= MaxKeys}}

\* A token for a JSON text that is valid but no object (an array).
ArrayTok == Tok("[]", <<>>, <<>>, 2)

SealedA == [k \in {KeyA} |-> ValSealedP]

SpecialBodies ==
    { <<>>,
      <<NullTok>>,
      <<ArrayTok>>,
      <<Junk(9)>>,
      <<LB, Pair(KeyA, ValSealedP)>>,
      <<LB, PairNull(KeyA), RB>>,
      <<LB, PairNum(KeyA), RB>>,
      <<LB, Pair(KeyA, ValPlain), Pair(KeyA, ValSealedP), RB>>,
      Marshal(SealedA) \o <<WS(maxBytes)>>,
      <<LB, WS(maxBytes), Pair(KeyA, ValSealedP), RB>> }

Bodies == {Marshal(m) : m \in RequestMaps} \cup SpecialBodies

\* The command line of the built-in unseal command, and another command.
CmdBuiltin == <<"/ojster", "unseal", "-json", "-priv-file", "./.env.keys">>
CmdOther == <<"sh", "-c", "script">>

\* Maps a decryption backend other than pqc.UnsealMap may return.
OutKeyNames == {KeyA, KeyB, KeyX}
OutMaps == UNION {[S -> {PlainP}] : S \in SUBSET OutKeyNames}

BackendResult(out, code, err) ==
    [out |-> out, code |-> code, msg |-> NoMsg, err |-> err]

\* Results of a replaced unsealMapFunc: a map and no error, or an error.
StubResults ==
    {BackendResult(m, 0, "nil") : m \in OutMaps}
        \cup {BackendResult(<<>>, 1, e) : e \in {"ErrConfig", "ErrUnseal", "ErrMissingKeys"}}

NoBackend == BackendResult(<<>>, 0, "unset")

\* What an external command other than the built-in one may print.
Stdouts ==
    {Marshal(m) : m \in OutMaps}
        \cup {<<>>, <<Junk(3)>>, <<NullTok>>, <<LB, PairNull(KeyA), RB>>}

\* Exit statuses and outputs of such a command.
CmdOutcomes ==
    {[code |-> 0, out |-> o] : o \in Stdouts}
        \cup {[code |-> 3, out |-> o] : o \in {<<>>, Marshal(SealedA)}}

\* ------------------------------------------------------------------------
\* file.WriteFileAtomic and pqc.KeypairWithPaths, over a file system that
\* maps each path to what is there: nothing, a directory, or a file with
\* its content and mode.
\* ------------------------------------------------------------------------

Paths == {"p1", "p2"}

Nothing == [kind |-> "none", content |-> "", mode |-> ""]
Directory == [kind |-> "dir", content |-> "", mode |-> ""]
File(content, mode) == [kind |-> "file", content |-> content, mode |-> mode]

\* The steps of WriteFileAtomic at which a call may fail.
WriteFaults == {"none", "createTemp", "write", "sync", "close", "rename", "chmod"}

\* file.WriteFileAtomic(path, data, perm), failing at the given step (or
\* at the rename when the target is a directory).  The temporary file is
\* created with mode 0600; up to the rename nothing at path changes.
WriteFileAtomic(fs, path, data, perm, fault) ==
    IF fault \in {"createTemp", "write", "sync", "close"}
    THEN [err |-> fault, fs |-> fs]
    ELSE IF fault = "rename" \/ fs[path].kind = "dir"
    THEN [err |-> "rename", fs |-> fs]
    ELSE IF fault = "chmod"
    THEN [err |-> "chmod", fs |-> [fs EXCEPT ![path] = File(data, "0600")]]
    ELSE [err |-> "nil", fs |-> [fs EXCEPT ![path] = File(data, perm)]]

\* os.Remove(path): removes the file (or empty directory) at path.
Remove(fs, path) == [fs EXCEPT ![path] = Nothing]

\* A faulty variant: the private key is left in place when the public-key write
\* fails.
KeypairWithPathsNoRemove(fs, privPath, pubPath, genOk, f1, f2) ==
    LET w1 == WriteFileAtomic(fs, privPath, "priv", "0600", f1)
        w2 == WriteFileAtomic(w1.fs, pubPath, "pub", "0644", f2)
    IN  IF ~genOk
        THEN [code |-> 1, fs |-> fs, privErr |-> "notrun", pubErr |-> "notrun"]
        ELSE IF w1.err # "nil"
        THEN [code |-> 1, fs |-> w1.fs, privErr |-> w1.err, pubErr |-> "notrun"]
        ELSE IF w2.err # "nil"
        THEN [code |-> 1, fs |-> w2.fs, privErr |-> "nil", pubErr |-> w2.err]
        ELSE [code |-> 0, fs |-> w2.fs, privErr |-> "nil", pubErr |-> "nil"]

\* pqc.KeypairWithPaths(privPath, pubPath, outw, errw): the exit code, the
\* file system afterwards, and the errors of the two writes.
KeypairWithPaths(fs, privPath, pubPath, genOk, f1, f2) ==
    LET w1 == WriteFileAtomic(fs, privPath, "priv", "0600", f1)
        w2 == WriteFileAtomic(w1.fs, pubPath, "pub", "0644", f2)
    IN  IF ~genOk
        THEN [code |-> 1, fs |-> fs, privErr |-> "notrun", pubErr |-> "notrun"]
        ELSE IF w1.err # "nil"
        THEN [code |-> 1, fs |-> w1.fs, privErr |-> w1.err, pubErr |-> "notrun"]
        ELSE IF w2.err # "nil"
        THEN [code |-> 1, fs |-> Remove(w2.fs, privPath),
              privErr |-> "nil", pubErr |-> w2.err]
        ELSE [code |-> 0, fs |-> w2.fs, privErr |-> "nil", pubErr |-> "nil"]

\* ------------------------------------------------------------------------
\* State
\* ------------------------------------------------------------------------

VARIABLES
    body,           \* the bytes of the request body
    cmdArgs,        \* the configured command; empty selects the direct branch
    unsealImpl,     \* what unsealMapFunc is: "pqc" (pqc.UnsealMap) or "stub"
    privFile,       \* the private-key file
    pc,             \* position of the handler
    data,           \* what was read of the body
    incoming,       \* the decoded request map
    requestedKeys,  \* set of validated key names
    backend,        \* what unsealMapFunc returned
    outMap,         \* the map the filter is applied to
    tmp,            \* the per-request temporary directory
    proc,           \* the external command's process
    desc,           \* a descendant of the command that inherited its stdout
    exit,           \* exit status and output of the command
    runErr,         \* the error execCmd.Run returned
    clock,          \* seconds since the context was created
    status,         \* HTTP status written, 0 if none
    respBody,       \* the map of a 200 response
    respErr,        \* the message of an error response
    writes,         \* number of responses written
    trace,          \* side effects and phases of the request, in order
    kpc,            \* position of the keypair command
    kfs,            \* the file system the keypair command works on
    kpaths,         \* its arguments privPath and pubPath
    kres,           \* exit code and write errors of KeypairWithPaths
    upc,            \* position of the unseal command
    uin,            \* its source map, private-key file, keys and -json flag
    ures,           \* its exit code, error message and output
    ejob,           \* the calls of seal / UpdateEnvFile: what each is to do
    ecall,          \* each call's position and local variables
    efile,          \* the env file at outPath
    efile0,         \* the env file as it was before the calls
    eseen,          \* what a concurrent reader of the env file has seen
    eback,          \* the unseal command run on the env file afterwards
    codec,          \* the codec: two byte buffers, the value built, its parse
    creq,           \* the request maps of the concurrent requests
    ccall,          \* each concurrent request's position and local variables
    tmpfs,          \* the directories under os.TempDir()
    foreign,        \* whether a request touched another request's directory
    rpc,            \* position of the client's Run
    nextArgs,       \* the command Run is to execute
    requestMap,     \* the map Run sends
    reply,          \* what the last post returned: err, statusCode, respBody
    backoff,        \* the delay before the next retry, in seconds
    newEnv,         \* the reply map Run accepted
    slept,          \* the delays passed to sleepFunc, in order
    sent,           \* the maps posted, in order
    execWith,       \* whether execFunc was called, and with which map
    rret            \* what Run returned, -1 while it runs

cfgVars == <<body, cmdArgs, unsealImpl, privFile>>
reqVars == <<data, incoming, requestedKeys>>
subVars == <<tmp, proc, desc, exit, runErr, clock>>
respVars == <<status, respBody, respErr, writes>>
kpVars == <<kpc, kfs, kpaths, kres>>
hVars == <<cfgVars, pc, reqVars, backend, outMap, subVars, respVars, trace>>
unVars == <<upc, uin, ures>>
stVars == <<ejob, ecall, efile, efile0, eseen, eback>>
cdVars == <<codec>>
svVars == <<creq, ccall, tmpfs, foreign>>
clVars == <<rpc, nextArgs, requestMap, reply, backoff, newEnv, slept, sent, execWith, rret>>
vars == <<hVars, kpVars, unVars, stVars, cdVars, svVars, clVars>>

\* What no step of the handler changes: its configuration, the request,
\* the private-key file, and the state of the other machines.
fixed == <<cfgVars, kpVars, unVars, stVars, cdVars, svVars, clVars>>

NoTmp == [dir |-> "none", env |-> "none", link |-> FALSE, extra |-> FALSE]
NoExit == [code |-> 0, out |-> <<>>, late |-> FALSE]

Configs ==
    {[cmdArgs |-> <<>>, impl |-> "pqc", priv |-> p] : p \in PrivFileStates}
        \cup {[cmdArgs |-> <<>>, impl |-> "stub", priv |-> "valid"]}
        \cup {[cmdArgs |-> CmdOther, impl |-> "pqc", priv |-> "valid"]}
        \cup {[cmdArgs |-> CmdBuiltin, impl |-> "pqc", priv |-> p] : p \in PrivFileStates}

NoKeypairResult == [code |-> 0, privErr |-> "notrun", pubErr |-> "notrun"]

\* The keypair command is not part of the run.
KeypairOff ==
    /\ kpc = "off"
    /\ kfs = [p \in Paths |-> Nothing]
    /\ kpaths = [priv |-> "p1", pub |-> "p2"]
    /\ kres = NoKeypairResult

NoUnsealResult == [code |-> 0, err |-> NoMsg, out |-> <<>>]

\* The unseal command is not part of the run.
UnsealOff ==
    /\ upc = "off"
    /\ uin = [env |-> <<>>, priv |-> "valid", keys |-> <<>>, json |-> FALSE]
    /\ ures = NoUnsealResult

NoBack == [ran |-> FALSE, json |-> FALSE, res |-> NoUnsealResult]

\* No file at the path of the env file.
NoEnvFile == [kind |-> "none", content |-> <<>>, mode |-> ""]

\* No call of seal or UpdateEnvFile is part of the run.
StoreOff ==
    /\ ejob = <<>>
    /\ ecall = <<>>
    /\ efile = NoEnvFile
    /\ efile0 = NoEnvFile
    /\ eseen = {}
    /\ eback = NoBack

\* The codec is not part of the run.
CodecOff == codec = [pc |-> "off"]

\* No concurrent requests are part of the run.
ServerOff ==
    /\ creq = <<>>
    /\ ccall = <<>>
    /\ tmpfs = <<>>
    /\ foreign = FALSE

NoReply == [err |-> FALSE, status |-> 0, body |-> <<>>]
NoExec == [called |-> FALSE, env |-> <<>>]

ClientOff ==
    /\ rpc = "off"
    /\ nextArgs = <<>>
    /\ requestMap = <<>>
    /\ reply = NoReply
    /\ backoff = 0
    /\ newEnv = <<>>
    /\ slept = <<>>
    /\ sent = <<>>
    /\ execWith = NoExec
    /\ rret = -1

\* A request has arrived at a server with some configuration.
HandlerInit(start, bodies, configs) ==
    /\ body \in bodies
    /\ \E c \in configs :
          /\ cmdArgs = c.cmdArgs
          /\ unsealImpl = c.impl
          /\ privFile = c.priv
    /\ pc = start
    /\ data = <<>>
    /\ incoming = <<>>
    /\ requestedKeys = {}
    /\ backend = NoBackend
    /\ outMap = <<>>
    /\ tmp = NoTmp
    /\ proc = "none"
    /\ desc = "none"
    /\ exit = NoExit
    /\ runErr = "nil"
    /\ clock = 0
    /\ status = 0
    /\ respBody = <<>>
    /\ respErr = NoMsg
    /\ writes = 0
    /\ trace = <<>>

Init ==
    /\ HandlerInit("read", Bodies, Configs)
    /\ KeypairOff /\ UnsealOff /\ StoreOff /\ CodecOff /\ ServerOff /\ ClientOff

\* http.Error(w, msg, code), or the three lines that write a 200.
Respond(code, m, msg) ==
    /\ status' = code
    /\ respBody' = m
    /\ respErr' = msg
    /\ writes' = writes + 1

\* ------------------------------------------------------------------------
\* handlePost
\* ------------------------------------------------------------------------

\* io.ReadAll(io.LimitReader(r.Body, maxBytes))
ReadBody ==
    /\ pc = "read"
    /\ \/ /\ data' = LimitReader(body, maxBytes)
          /\ pc' = "unmarshal"
          /\ UNCHANGED respVars
       \/ /\ Respond(400, <<>>, Msg("failed to read body", <<>>))
          /\ pc' = "returned"
          /\ UNCHANGED data
    /\ trace' = Append(trace, "read")
    /\ UNCHANGED <<fixed, incoming, requestedKeys, backend, outMap, subVars>>

\* json.Unmarshal(data, &incoming)
ParseBody ==
    /\ pc = "unmarshal"
    /\ LET r == Unmarshal(data)
       IN  IF r.ok
           THEN /\ incoming' = r.m
                /\ pc' = "validate"
                /\ trace' = Append(trace, "parsed")
                /\ UNCHANGED respVars
           ELSE /\ Respond(400, <<>>, Msg("invalid JSON", <<>>))
                /\ pc' = "returned"
                /\ UNCHANGED <<incoming, trace>>
    /\ UNCHANGED <<fixed, data, requestedKeys, backend, outMap, subVars>>

\* A faulty variant: the loop stops at the first key, whatever the map holds.
KeyNamesValidFirstOnly(m) == \E k \in DOMAIN m : KeyNameRegex(k)

\* The loop over incoming finds no key that fails env.KeyNameRegex.
KeyNamesValid(m) == \A k \in DOMAIN m : KeyNameRegex(k)

\* The loop that validates the key names and builds requestedKeys.  Map
\* iteration order is unspecified, so any offending key may be the one
\* the message names.
ValidateKeys ==
    /\ pc = "validate"
    /\ IF KeyNamesValid(incoming)
       THEN /\ requestedKeys' = DOMAIN incoming
            /\ pc' = "dispatch"
            /\ trace' = Append(trace, "validated")
            /\ UNCHANGED respVars
       ELSE /\ \E k \in DOMAIN incoming :
                 /\ ~KeyNameRegex(k)
                 /\ Respond(400, <<>>, Msg("invalid key name in request", k))
            /\ pc' = "returned"
            /\ UNCHANGED <<requestedKeys, trace>>
    /\ UNCHANGED <<fixed, data, incoming, backend, outMap, subVars>>

\* cmd := the built-in command, unless cmdArgs is given
cmd == IF Len(cmdArgs) > 0 THEN cmdArgs ELSE CmdBuiltin

\* if len(cmdArgs) == 0 { direct } else { subprocess }
Dispatch ==
    /\ pc = "dispatch"
    /\ pc' = IF Len(cmdArgs) = 0 THEN "direct" ELSE "mkdir"
    /\ UNCHANGED <<fixed, reqVars, backend, outMap, subVars, respVars, trace>>

\* ------------------------------------------------------------------------
\* The tail both branches share: reject unexpected keys, filter to the
\* requested keys, reject an empty result.
\* ------------------------------------------------------------------------

\* A faulty variant: the test looks for requested keys missing from the result.
UnexpectedKeysReversed(out, requested) == \E k \in requested : k \notin DOMAIN out

\* for k := range outMap { if _, ok := requestedKeys[k]; !ok { 502 } }
UnexpectedKeys(out, requested) == \E k \in DOMAIN out : k \notin requested

\* A faulty variant: every requested key is copied, present in the result or not.
FinalMapNoPresenceTest(out, requested) ==
    [k \in requested |-> IF k \in DOMAIN out THEN out[k] ELSE <<>>]

\* for k := range requestedKeys { if v, ok := outMap[k]; ok { finalMap[k] = v } }
FinalMap(out, requested) ==
    [k \in {x \in requested : x \in DOMAIN out} |-> out[k]]

\* A faulty variant: the test for an empty result is missing.
NoEntriesNever(m) == FALSE

\* len(finalMap) == 0
NoEntries(m) == DOMAIN m = {}

Response(code, m, msg) == [status |-> code, body |-> m, msg |-> msg]

\* The response the tail produces for a backend's map.
FilterResponse(out, requested) ==
    IF UnexpectedKeys(out, requested)
    THEN Response(502, <<>>, Msg("returned unexpected keys", <<>>))
    ELSE IF NoEntries(FinalMap(out, requested))
    THEN Response(502, <<>>, Msg("produced no acceptable env entries", <<>>))
    ELSE Response(200, FinalMap(out, requested), NoMsg)

\* ------------------------------------------------------------------------
\* handlePostDirectUnseal
\* ------------------------------------------------------------------------

\* var unsealMapFunc = func(...) { return pqc.UnsealMap(envMap, privPath, keys) }
unsealMapFunc(envMap, priv, keys) == UnsealMap(envMap, priv, keys)

\* outMap, err := unsealMapFunc(incoming, privateKeyFile, nil)
DirectCall ==
    /\ pc = "direct"
    /\ IF unsealImpl = "pqc"
       THEN /\ backend' = unsealMapFunc(incoming, privFile, <<>>)
            /\ trace' = trace \o <<"readKey", "backendReturned">>
       ELSE /\ backend' \in StubResults
            /\ trace' = trace \o <<"backendReturned">>
    /\ outMap' = backend'.out
    /\ pc' = "directFilter"
    /\ UNCHANGED <<fixed, reqVars, subVars, respVars>>

\* A faulty variant: every error of unsealMapFunc is answered 502.
DirectResponseAll502(b, requested) ==
    IF b.err # "nil"
    THEN Response(502, <<>>, b.msg)
    ELSE FilterResponse(b.out, requested)

\* A faulty variant: an error is answered with a fixed text in place of
\* err.Error().
DirectResponseFixedText(b, requested) ==
    IF b.err # "nil"
    THEN IF b.err = "ErrConfig"
         THEN Response(500, <<>>, Msg("unseal failed", <<>>))
         ELSE Response(502, <<>>, Msg("unseal failed", <<>>))
    ELSE FilterResponse(b.out, requested)

\* A faulty variant: an error that is no configuration error is answered
\* 503.
DirectResponseUnavailable(b, requested) ==
    IF b.err # "nil"
    THEN IF b.err = "ErrConfig"
         THEN Response(500, <<>>, b.msg)
         ELSE Response(503, <<>>, b.msg)
    ELSE FilterResponse(b.out, requested)

\* The response handlePostDirectUnseal writes for what unsealMapFunc returned.
DirectResponse(b, requested) ==
    IF b.err # "nil"
    THEN IF b.err = "ErrConfig"
         THEN Response(500, <<>>, b.msg)
         ELSE Response(502, <<>>, b.msg)
    ELSE FilterResponse(b.out, requested)

\* The rest of handlePostDirectUnseal, after unsealMapFunc returned.
DirectRespond ==
    /\ pc = "directFilter"
    /\ LET r == DirectResponse(backend, requestedKeys)
       IN  Respond(r.status, r.body, r.msg)
    /\ trace' = IF backend.err = "nil" THEN Append(trace, "filtered") ELSE trace
    /\ pc' = "returned"
    /\ UNCHANGED <<fixed, reqVars, backend, outMap, subVars>>

\* ------------------------------------------------------------------------
\* handlePostSubprocessUnseal
\* ------------------------------------------------------------------------

\* The orders in which a range over a map with key set S may visit it.
RECURSIVE Orders(_)
Orders(S) ==
    IF S = {} THEN {<<>>}
    ELSE UNION {{<<k>> \o o : o \in Orders(S \ {k})} : k \in S}

\* The text written to .env for the entries of m visited in the given
\* order: the formatted lines joined, with a trailing newline ensured.
EnvText(m, order) ==
    LET s == Join([i \in 1..Len(order) |-> FormatEnvEntry(order[i], m[order[i]])])
    IN  IF HasSuffix(s, <<"\n">>) THEN s ELSE s \o <<"\n">>

\* A faulty variant: os.Remove in place of os.RemoveAll, which leaves a directory
\* that is not empty.
RemoveOnly(t) ==
    IF t.env = "none" /\ ~t.link /\ ~t.extra
    THEN [dir |-> "removed", env |-> "none", link |-> FALSE, extra |-> FALSE]
    ELSE t

\* os.RemoveAll(tmpDir): the directory and everything in it; the symlink
\* itself is removed, not the file it points to.
RemoveAll(t) == [dir |-> "removed", env |-> "none", link |-> FALSE, extra |-> FALSE]

\* tmpDir, err := os.MkdirTemp("", "ojster-"); on success the removal of
\* the directory is deferred.
MkdirTemp ==
    /\ pc = "mkdir"
    /\ \/ /\ tmp' = [tmp EXCEPT !.dir = "exists"]
          /\ pc' = "writeEnv"
          /\ trace' = Append(trace, "mkdirTemp")
          /\ UNCHANGED respVars
       \/ /\ Respond(500, <<>>, Msg("failed to create temp dir", <<>>))
          /\ pc' = "returned"
          /\ UNCHANGED <<tmp, trace>>
    /\ UNCHANGED <<fixed, reqVars, backend, outMap, proc, desc, exit, runErr, clock>>

\* os.WriteFile(envPath, []byte(s), 0600)
WriteEnv ==
    /\ pc = "writeEnv"
    /\ \/ /\ \E order \in Orders(DOMAIN incoming) :
                tmp' = [tmp EXCEPT !.env = EnvText(incoming, order)]
          /\ pc' = "symlink"
          /\ trace' = Append(trace, "writeEnv")
          /\ UNCHANGED respVars
       \/ /\ Respond(500, <<>>, Msg("failed to write .env file", <<>>))
          /\ pc' = "deferred"
          /\ UNCHANGED <<tmp, trace>>
    /\ UNCHANGED <<fixed, reqVars, backend, outMap, proc, desc, exit, runErr, clock>>

\* os.Symlink(privateKeyFile, filepath.Join(tmpDir, ".env.keys")); then the
\* context with its deadline is created.
Symlink ==
    /\ pc = "symlink"
    /\ \/ /\ tmp' = [tmp EXCEPT !.link = TRUE]
          /\ pc' = "start"
          /\ trace' = Append(trace, "symlink")
          /\ UNCHANGED respVars
       \/ /\ Respond(500, <<>>, Msg("failed to create symlink to private key file", <<>>))
          /\ pc' = "deferred"
          /\ UNCHANGED <<tmp, trace>>
    /\ UNCHANGED <<fixed, reqVars, backend, outMap, proc, desc, exit, runErr, clock>>

\* execCmd.Run(), first half: the process is started, or cannot be.
StartCmd ==
    /\ pc = "start"
    /\ \/ /\ proc' = "running"
          /\ pc' = "wait"
          /\ runErr' = runErr
       \/ /\ runErr' = "start"
          /\ pc' = "classify"
          /\ proc' = proc
    /\ trace' = Append(trace, "startCmd")
    /\ UNCHANGED <<fixed, reqVars, backend, outMap, tmp, desc, exit, clock, respVars>>

\* Time passes while execCmd.Run is blocked: the process is running, or a
\* child of it keeps the standard output open.
Tick ==
    /\ pc = "wait"
    /\ proc = "running" \/ desc = "holding"
    /\ clock < TimeoutSecs
    /\ clock' = clock + TickSecs
    /\ UNCHANGED <<fixed, pc, reqVars, backend, outMap, tmp, proc, desc, exit,
                   runErr, respVars, trace>>

\* The command starts a child process, which inherits its standard output.
CmdFork ==
    /\ cmd # CmdBuiltin
    /\ proc = "running"
    /\ desc = "none"
    /\ desc' = "holding"
    /\ UNCHANGED <<fixed, pc, reqVars, backend, outMap, tmp, proc, exit,
                   runErr, clock, respVars, trace>>

\* That child exits (or closes its standard output).
DescExit ==
    /\ desc = "holding"
    /\ desc' = "gone"
    /\ UNCHANGED <<fixed, pc, reqVars, backend, outMap, tmp, proc, exit,
                   runErr, clock, respVars, trace>>

\* The command creates a file in its working directory.
CmdWrite ==
    /\ cmd # CmdBuiltin
    /\ proc = "running"
    /\ ~tmp.extra
    /\ tmp' = [tmp EXCEPT !.extra = TRUE]
    /\ UNCHANGED <<fixed, pc, reqVars, backend, outMap, proc, desc, exit,
                   runErr, clock, respVars, trace>>

\* What the command does when it runs to its end.  The built-in command
\* is UnsealFromFiles on ./.env with the key file ./.env.keys, which is the
\* symlink to the private-key file; any other command may do anything.
CmdBehaviours ==
    IF cmd = CmdBuiltin
    THEN {UnsealFromFiles(tmp.env, IF tmp.link THEN privFile ELSE "absent", <<>>)}
    ELSE CmdOutcomes

\* The command exits on its own; "late" when the deadline has passed and
\* the kill has not reached it.
CmdExit ==
    /\ proc = "running"
    /\ \E b \in CmdBehaviours :
          exit' = [code |-> b.code, out |-> b.out, late |-> clock >= TimeoutSecs]
    /\ proc' = "exited"
    /\ UNCHANGED <<fixed, pc, reqVars, backend, outMap, tmp, desc, runErr,
                   clock, respVars, trace>>

\* exec.CommandContext: when the context's deadline has passed, the process
\* is killed.
CtxKill ==
    /\ proc = "running"
    /\ clock >= TimeoutSecs
    /\ proc' = "killed"
    /\ UNCHANGED <<fixed, pc, reqVars, backend, outMap, tmp, desc, exit,
                   runErr, clock, respVars, trace>>

\* execCmd.Run(), second half: Wait returns once the process has ended and
\* the copy of its standard output into stdoutBuf has reached end of file,
\* that is, once no process holds the write end of the pipe any more (no
\* WaitDelay is set).  A killed process and a non-zero exit yield an
\* *exec.ExitError; for a process that exited with 0 just as the deadline
\* passed, Wait returns nil or the context's error, depending on whether
\* the kill found it gone.
RunReturn ==
    /\ pc = "wait"
    /\ proc \in {"exited", "killed"}
    /\ desc # "holding"
    /\ \/ /\ proc = "killed" \/ exit.code # 0
          /\ runErr' = "ExitError"
          /\ pc' = "classify"
       \/ /\ proc = "exited" /\ exit.code = 0
          /\ runErr' = "nil"
          /\ pc' = "parseOut"
       \/ /\ proc = "exited" /\ exit.code = 0 /\ exit.late
          /\ runErr' = "ctx"
          /\ pc' = "classify"
    /\ UNCHANGED <<fixed, reqVars, backend, outMap, tmp, proc, desc, exit,
                   clock, respVars, trace>>

\* A faulty variant: the kind of the error is looked at before the context.
RunErrResponseExitFirst(err, expired) ==
    IF err = "ExitError"
    THEN Response(502, <<>>, Msg("subprocess failed", <<>>))
    ELSE IF expired
    THEN Response(504, <<>>, Msg("subprocess timed out", <<>>))
    ELSE Response(500, <<>>, Msg("failed to run subprocess", <<>>))

\* A faulty variant: every error that is no timeout is answered 502.
RunErrResponseNoStartCase(err, expired) ==
    IF expired
    THEN Response(504, <<>>, Msg("subprocess timed out", <<>>))
    ELSE Response(502, <<>>, Msg("subprocess failed", <<>>))

\* The response for an error of execCmd.Run, given whether the context's
\* deadline has passed.
RunErrResponse(err, expired) ==
    IF expired
    THEN Response(504, <<>>, Msg("subprocess timed out", <<>>))
    ELSE IF err = "ExitError"
    THEN Response(502, <<>>, Msg("subprocess failed", <<>>))
    ELSE Response(500, <<>>, Msg("failed to run subprocess", <<>>))

\* A faulty variant: a command that could not be started is started again.
ClassifyRetry ==
    /\ pc = "classify"
    /\ IF runErr = "start" /\ clock < TimeoutSecs
       THEN /\ pc' = "start"
            /\ UNCHANGED respVars
       ELSE /\ LET r == RunErrResponse(runErr, clock >= TimeoutSecs)
               IN  Respond(r.status, r.body, r.msg)
            /\ pc' = "deferred"
    /\ UNCHANGED <<fixed, reqVars, backend, outMap, subVars, trace>>

\* if err := execCmd.Run(); err != nil { ... }
Classify ==
    /\ pc = "classify"
    /\ LET r == RunErrResponse(runErr, clock >= TimeoutSecs)
       IN  Respond(r.status, r.body, r.msg)
    /\ pc' = "deferred"
    /\ UNCHANGED <<fixed, reqVars, backend, outMap, subVars, trace>>

\* json.Unmarshal(stdoutBuf.Bytes(), &outMap)
ParseStdout ==
    /\ pc = "parseOut"
    /\ LET r == Unmarshal(exit.out)
       IN  IF r.ok
           THEN /\ outMap' = r.m
                /\ pc' = "subFilter"
                /\ trace' = Append(trace, "backendReturned")
                /\ UNCHANGED respVars
           ELSE /\ Respond(502, <<>>, Msg("subprocess produced invalid JSON", <<>>))
                /\ pc' = "deferred"
                /\ UNCHANGED <<outMap, trace>>
    /\ UNCHANGED <<fixed, reqVars, backend, subVars>>

\* The tail of handlePostSubprocessUnseal.
SubprocessRespond ==
    /\ pc = "subFilter"
    /\ LET r == FilterResponse(outMap, requestedKeys)
       IN  Respond(r.status, r.body, r.msg)
    /\ trace' = Append(trace, "filtered")
    /\ pc' = "deferred"
    /\ UNCHANGED <<fixed, reqVars, backend, outMap, subVars>>

\* The deferred calls, run when handlePostSubprocessUnseal returns:
\* A faulty variant: removing the directory follows the .env.keys link and
\* removes the private-key file with it.
RunDefersFollowLink ==
    /\ pc = "deferred"
    /\ tmp' = RemoveAll(tmp)
    /\ privFile' = IF tmp.link THEN "absent" ELSE privFile
    /\ pc' = "returned"
    /\ UNCHANGED <<body, cmdArgs, unsealImpl, kpVars, unVars, stVars, cdVars, svVars, clVars,
                   reqVars, backend, outMap, proc, desc, exit, runErr,
                   clock, respVars, trace>>

\* cancel() and os.RemoveAll(tmpDir).
RunDefers ==
    /\ pc = "deferred"
    /\ tmp' = RemoveAll(tmp)
    /\ pc' = "returned"
    /\ UNCHANGED <<fixed, reqVars, backend, outMap, proc, desc, exit, runErr,
                   clock, respVars, trace>>

\* ------------------------------------------------------------------------
\* The keypair command
\* ------------------------------------------------------------------------

\* What may be at a path before the command runs.
InitialEntries == {Nothing, Directory, File("old", "0644")}

KeypairInit ==
    /\ kpc = "ready"
    /\ kfs \in [Paths -> InitialEntries]
    /\ kpaths \in [priv : Paths, pub : Paths]
    /\ kres = NoKeypairResult

\* One run of KeypairWithPaths: key generation succeeds or not, and each
\* write goes through or fails at one of its steps.
Keypair ==
    /\ kpc = "ready"
    /\ \E genOk \in BOOLEAN, f1 \in WriteFaults, f2 \in WriteFaults :
          LET r == KeypairWithPaths(kfs, kpaths.priv, kpaths.pub, genOk, f1, f2)
          IN  /\ kfs' = r.fs
              /\ kres' = [code |-> r.code, privErr |-> r.privErr, pubErr |-> r.pubErr]
    /\ kpc' = "done"
    /\ UNCHANGED <<kpaths, hVars, unVars, stVars, cdVars, svVars, clVars>>

Next ==
    \/ ReadBody
    \/ ParseBody
    \/ ValidateKeys
    \/ Dispatch
    \/ DirectCall
    \/ DirectRespond
    \/ MkdirTemp
    \/ WriteEnv
    \/ Symlink
    \/ StartCmd
    \/ Tick
    \/ CmdFork
    \/ DescExit
    \/ CmdWrite
    \/ CmdExit
    \/ CtxKill
    \/ RunReturn
    \/ Classify
    \/ ParseStdout
    \/ SubprocessRespond
    \/ RunDefers

\* The request handler serving one request.
Spec == Init /\ [][Next]_vars

HandlerOff == HandlerInit("off", {<<>>}, {[cmdArgs |-> <<>>, impl |-> "pqc", priv |-> "valid"]})

InitKeypair ==
    HandlerOff /\ KeypairInit /\ UnsealOff /\ StoreOff /\ CodecOff /\ ServerOff /\ ClientOff

NextKeypair == Keypair

\* The keypair command run once.
SpecKeypair == InitKeypair /\ [][NextKeypair]_vars

\* ------------------------------------------------------------------------
\* The unseal command
\* ------------------------------------------------------------------------

KeyC == <<"C">>
ValSealedQ == prefix \o CtGood \o sep \o BlobQ

\* Source maps: what the env file holds under each of up to three keys.
SourceKeyNames == {KeyA, KeyB, KeyC}
SourceValues == {ValPlain, ValSealedP, ValSealedQ, ValMalformed}
SourceMaps == UNION {[S -> SourceValues] : S \in SUBSET SourceKeyNames}

\* The keys given on the command line, in the order given; a key may be
\* given twice.
RECURSIVE SeqsUpTo(_, _)
SeqsUpTo(S, n) ==
    IF n = 0 THEN {<<>>}
    ELSE SeqsUpTo(S, n - 1)
             \cup {Append(q, x) : q \in {r \in SeqsUpTo(S, n - 1) : Len(r) = n - 1}, x \in S}

KeyLists == SeqsUpTo(SourceKeyNames, MaxReq)

UnsealInit ==
    /\ upc = "ready"
    /\ uin \in [env : SourceMaps, priv : PrivFileStates, keys : KeyLists, json : BOOLEAN]
    /\ ures = NoUnsealResult

\* One run of UnsealFromFiles.
Unseal ==
    /\ upc = "ready"
    /\ ures' = UnsealFromSource(uin.env, uin.priv, uin.keys, uin.json)
    /\ upc' = "done"
    /\ UNCHANGED <<uin, hVars, kpVars, stVars, cdVars, svVars, clVars>>

InitUnseal ==
    HandlerOff /\ KeypairOff /\ UnsealInit /\ StoreOff /\ CodecOff /\ ServerOff /\ ClientOff

NextUnseal == Unseal

\* The unseal command run once.
SpecUnseal == InitUnseal /\ [][NextUnseal]_vars

\* The sealed-value codec's predicate and detection pattern.
\* pqc.IsSealed(s): after one optional layer of surrounding single quotes is
\* stripped, the text starts with the prefix.
StripQuotes(v) ==
    IF Len(v) >= 2 /\ v[1] = "'" /\ v[Len(v)] = "'"
    THEN SubSeq(v, 2, Len(v) - 1)
    ELSE v

IsSealed(v) == HasPrefix(StripQuotes(v), prefix)

\* pqc.DefaultValueRegex(): a sealed value, bare or in single quotes:
\* ^'?(OJSTER-1:[A-Za-z0-9+/=]+:[A-Za-z0-9+/=]+)'?$
DefaultValueRegex(v) ==
    LET a == IF v # <<>> /\ v[1] = "'" THEN Tail(v) ELSE v
        b == IF a # <<>> /\ a[Len(a)] = "'" THEN SubSeq(a, 1, Len(a) - 1) ELSE a
        parts == SplitN2(SubSeq(b, Len(prefix) + 1, Len(b)))
        b64(t) == t # <<>> /\ \A i \in 1..Len(t) : t[i] \in B64Alphabet \cup {"="}
    IN  /\ HasPrefix(b, prefix)
        /\ Len(parts) = 2
        /\ b64(parts[1])
        /\ b64(parts[2])

\* The unseal command on stored values that fail at each step of decryptCore's
\* loop.  A sealed value is put together from the text of a KEM ciphertext
\* and the text of an AEAD blob.
Sealed(ct, blob) == prefix \o ct \o sep \o blob

BadB64 == <<"!">>
KemShort == B64Encode(<<0, 0>>)
BlobShort == B64Encode(<<0>>)
BlobWithSep == SubSeq(BlobP, 1, 2) \o sep \o SubSeq(BlobP, 3, Len(BlobP))
ValQuoted == <<"'">> \o ValSealedP \o <<"'">>
ValPrefixOnly == prefix

StepKems == {CtGood, CtOther, BadB64, KemShort}
StepBlobs == {BlobP, BadB64, BlobWithSep, BlobShort}
StepValues ==
    {Sealed(ct, blob) : ct \in StepKems, blob \in StepBlobs}
        \cup {ValPlain, ValQuoted, ValMalformed, ValPrefixOnly}
StepMaps == UNION {[S -> StepValues] : S \in SUBSET {KeyA, KeyB}}

UnsealStepsInit ==
    /\ upc = "ready"
    /\ uin \in [env : StepMaps, priv : {"valid", "absent"}, keys : KeyLists,
                json : BOOLEAN]
    /\ ures = NoUnsealResult

InitUnsealSteps ==
    HandlerOff /\ KeypairOff /\ UnsealStepsInit /\ StoreOff /\ CodecOff /\ ServerOff /\ ClientOff

\* The unseal command run once on such a source.
SpecUnsealSteps == InitUnsealSteps /\ [][NextUnseal]_vars

\* The response handlePostSubprocessUnseal writes once the command has run
\* to its end within the deadline with the given exit code and output.
SubprocessResponse(b, requested) ==
    IF b.code # 0 THEN RunErrResponse("ExitError", FALSE)
    ELSE IF ~Unmarshal(b.out).ok
    THEN Response(502, <<>>, Msg("subprocess produced invalid JSON", <<>>))
    ELSE FilterResponse(Unmarshal(b.out).m, requested)

\* ------------------------------------------------------------------------
\* The seal command and env.UpdateEnvFile, run by one caller or by two at
\* once on the same env file
\* ------------------------------------------------------------------------

\* What the env file may hold before: nothing (no file), or a text.
TextEmpty == <<>>
TextOther == <<"#", " ", "c", "\n", "B", "=", "1", "\n">>
TextSame == <<"A", "=", "o", "l", "d", "\n">>
TextSameBlock == <<"A", "=", "'", "x", "\n", "y", "'", "\n", "B", "=", "1", "\n">>
TextOtherBlock == <<"B", "=", "'", "x", "\n", "y", "'", "\n", "A", "=", "o", "l", "d">>

TextOpenBlock == <<"B", "=", "'", "x", "\n", "A", "=", "o", "l", "d", "\n">>
TextNested == <<"B", "=", "'", "x", "\n", "A", "=", "1", "\n", "y", "'", "\n">>

StoreFiles ==
    {NoEnvFile} \cup {File(x, "0644") : x \in {TextEmpty, TextOther, TextSame,
                                             TextSameBlock, TextOtherBlock,
                                             TextOpenBlock, TextNested}}

\* Plaintexts to seal, and values to store with UpdateEnvFile.
PlainSpace == <<"a", " ", "b">>
PlainLines == <<"x", "\n", "y">>
PlainEntryLine == <<"x", "\n", "B", "=", "y">>
PlainQuoteLine == <<"o", "'", "c", "\n", "n">>

Plaintexts == {<<>>, PlainP, PlainSpace, PlainLines, PlainEntryLine}
UpdateValues ==
    {<<>>, ValPlain, ValSealedP, PlainSpace, PlainLines, PlainEntryLine, PlainQuoteLine}

\* The nonces rand.Reader may give.
Nonces == {0, 200}

\* The steps at which a run may fail: the public key cannot be used, the
\* nonce cannot be drawn, the env file cannot be read, or WriteFileAtomic
\* fails at one of its steps.
StoreFaults == {"none", "read", "write", "rename", "chmod"}

SealJobs ==
    [op : {"seal"}, pub : PubFileStates, key : {KeyA, KeyB}, plain : Plaintexts,
     value : {<<>>}, nonce : Nonces, fault : StoreFaults \cup {"encrypt"}]

UpdateJobs ==
    [op : {"update"}, pub : {"valid"}, key : {KeyA, KeyB}, plain : {<<>>},
     value : UpdateValues, nonce : {0}, fault : StoreFaults]

\* Two calls at once: the first seals PlainP under A, the second seals
\* PlainQ under A or B or stores a plain value under B.
PairJobs ==
    {<<j1, j2>> :
        j1 \in {j \in SealJobs : /\ j.pub = "valid" /\ j.key = KeyA /\ j.plain = PlainP
                                 /\ j.nonce = 0 /\ j.fault \in {"none", "chmod"}},
        j2 \in {j \in SealJobs : /\ j.pub = "valid" /\ j.plain = PlainLines
                                 /\ j.nonce = 200 /\ j.fault = "none"}
                 \cup {j \in UpdateJobs : /\ j.key = KeyB /\ j.value = ValPlain
                                          /\ j.fault = "none"}}

\* A caller at the start of its call.
StartOf(job) ==
    [pc |-> IF job.op = "seal" THEN "seal" ELSE "read", value |-> job.value,
     lines |-> <<>>, tmp |-> "none", err |-> "none", code |-> 0]

StoreInit(jobs, files) ==
    /\ ejob \in jobs
    /\ ecall = [c \in DOMAIN ejob |-> StartOf(ejob[c])]
    /\ efile \in files
    /\ efile0 = efile
    /\ eseen = {}
    /\ eback = NoBack

\* The call of caller c returns with err; SealWithPlaintext returns 1 for
\* every error and 0 otherwise.
Return(c, err) ==
    [ecall EXCEPT ![c].pc = "done", ![c].err = err, ![c].tmp = "none",
                  ![c].code = IF err = "nil" THEN 0 ELSE 1]

\* SealWithPlaintext from reading the public key to the sealed value.
SealValue(c) ==
    /\ ecall[c].pc = "seal"
    /\ LET j == ejob[c]
           r == sealValue(j.pub, j.plain, j.nonce, j.fault # "encrypt")
       IN  ecall' = IF r.err = "nil"
                    THEN [ecall EXCEPT ![c].pc = "read", ![c].value = r.sealed]
                    ELSE Return(c, r.err)
    /\ UNCHANGED <<ejob, efile, efile0, eseen, eback, hVars, kpVars, unVars, cdVars, svVars, clVars>>

\* UpdateEnvFile: os.MkdirAll, os.ReadFile and the scan into lines; a file
\* that does not exist is read as no lines.
UpdateRead(c) ==
    /\ ecall[c].pc = "read"
    /\ ecall' = IF ejob[c].fault = "read"
                THEN Return(c, "read")
                ELSE [ecall EXCEPT ![c].pc = "write",
                                   ![c].lines = IF efile.kind = "file"
                                                THEN ScanLines(efile.content)
                                                ELSE <<>>]
    /\ UNCHANGED <<ejob, efile, efile0, eseen, eback, hVars, kpVars, unVars, cdVars, svVars, clVars>>

\* UpdateEnvFile builds the new text from the lines it read; WriteFileAtomic
\* creates its own temporary file, writes the text, syncs and closes it.
UpdateWriteTemp(c) ==
    /\ ecall[c].pc = "write"
    /\ ecall' = IF ejob[c].fault = "write"
                THEN Return(c, "write")
                ELSE [ecall EXCEPT ![c].pc = "rename",
                                   ![c].tmp = UpdateEnvFileData(ecall[c].lines,
                                                                ejob[c].key,
                                                                ecall[c].value)]
    /\ UNCHANGED <<ejob, efile, efile0, eseen, eback, hVars, kpVars, unVars, cdVars, svVars, clVars>>

\* os.Rename(tmpName, path): the temporary file, created with mode 0600,
\* takes the place of whatever is at path.
UpdateRename(c) ==
    /\ ecall[c].pc = "rename"
    /\ IF ejob[c].fault = "rename"
       THEN /\ ecall' = Return(c, "rename")
            /\ UNCHANGED efile
       ELSE /\ efile' = File(ecall[c].tmp, "0600")
            /\ ecall' = [ecall EXCEPT ![c].pc = "chmod", ![c].tmp = "none"]
    /\ UNCHANGED <<ejob, efile0, eseen, eback, hVars, kpVars, unVars, cdVars, svVars, clVars>>

\* os.Chmod(path, 0o644), on the file that is at path by now.
UpdateChmod(c) ==
    /\ ecall[c].pc = "chmod"
    /\ IF ejob[c].fault = "chmod"
       THEN /\ ecall' = Return(c, "chmod")
            /\ UNCHANGED efile
       ELSE /\ efile' = [efile EXCEPT !.mode = "0644"]
            /\ ecall' = Return(c, "nil")
    /\ UNCHANGED <<ejob, efile0, eseen, eback, hVars, kpVars, unVars, cdVars, svVars, clVars>>

\* Another process reads the env file while the calls run.
ReadEnvFile ==
    /\ ecall # <<>>
    /\ eback = NoBack
    /\ efile \notin eseen
    /\ eseen' = eseen \cup {efile}
    /\ UNCHANGED <<ejob, ecall, efile, efile0, eback, hVars, kpVars, unVars, cdVars, svVars, clVars>>

\* A faulty variant: a successful unseal puts the plaintext entries in the
\* place of the env file's text.
UnsealBackInPlace ==
    /\ ecall # <<>>
    /\ \A c \in DOMAIN ecall : ecall[c].pc = "done"
    /\ eback = NoBack
    /\ LET envMap == IF efile.kind = "file" THEN ParseEnvFile(efile.content) ELSE <<>>
           keys == [c \in DOMAIN ejob |-> ejob[c].key]
       IN  /\ \E json \in BOOLEAN :
                 eback' = [ran |-> TRUE, json |-> json,
                           res |-> UnsealFromSource(envMap, "valid", keys, json)]
           /\ efile' = IF eback'.res.code = 0
                       THEN [efile EXCEPT !.content =
                                UnsealFromSource(envMap, "valid", keys, FALSE).out]
                       ELSE efile
    /\ UNCHANGED <<ejob, ecall, efile0, eseen, hVars, kpVars, unVars, cdVars, svVars, clVars>>

\* After the calls, the unseal command is run on the env file with the
\* private key of the pair, for the keys of the calls.
UnsealBack ==
    /\ ecall # <<>>
    /\ \A c \in DOMAIN ecall : ecall[c].pc = "done"
    /\ eback = NoBack
    /\ \E json \in BOOLEAN :
          eback' = [ran |-> TRUE, json |-> json,
                    res |-> UnsealFromSource(
                                IF efile.kind = "file"
                                THEN ParseEnvFile(efile.content) ELSE <<>>,
                                "valid", [c \in DOMAIN ejob |-> ejob[c].key], json)]
    /\ UNCHANGED <<ejob, ecall, efile, efile0, eseen, hVars, kpVars, unVars, cdVars, svVars, clVars>>

NextStore ==
    \/ \E c \in DOMAIN ecall : SealValue(c)
    \/ \E c \in DOMAIN ecall : UpdateRead(c)
    \/ \E c \in DOMAIN ecall : UpdateWriteTemp(c)
    \/ \E c \in DOMAIN ecall : UpdateRename(c)
    \/ \E c \in DOMAIN ecall : UpdateChmod(c)
    \/ ReadEnvFile
    \/ UnsealBack

InitStore ==
    /\ HandlerOff /\ KeypairOff /\ UnsealOff /\ CodecOff /\ ServerOff /\ ClientOff
    /\ StoreInit({<<j>> : j \in SealJobs \cup UpdateJobs}, StoreFiles)

\* One call of SealWithPlaintext or of UpdateEnvFile.
SpecStore == InitStore /\ [][NextStore]_vars

InitStorePair ==
    /\ HandlerOff /\ KeypairOff /\ UnsealOff /\ CodecOff /\ ServerOff /\ ClientOff
    /\ StoreInit(PairJobs, {NoEnvFile, File(TextOther, "0644"), File(TextSame, "0644")})

\* Two such calls at once on the same env file.
SpecStorePair == InitStorePair /\ [][NextStore]_vars

\* ------------------------------------------------------------------------
\* The three commands: one run of keypair, of unseal or of seal
\* ------------------------------------------------------------------------

\* UnsealFromFiles(inPath, privPath, keys, jsonOut, outw, errw) for an env
\* file that cannot be read (envErr) or that ParseEnvFile reads as envMap.
UnsealFromPaths(envErr, envMap, priv, keys, jsonOut) ==
    IF loadDecapsulationKey(priv).code # 0
    THEN [code |-> loadDecapsulationKey(priv).code,
          err |-> loadDecapsulationKey(priv).msg, out |-> <<>>]
    ELSE IF envErr
    THEN [code |-> 1, err |-> Msg("failed to read env file", <<>>), out |-> <<>>]
    ELSE unsealCore(envMap, keys, jsonOut)

UnsealCommandInit ==
    /\ upc = "ready"
    /\ uin \in [env : SourceMaps, envErr : BOOLEAN, priv : PrivFileStates,
                keys : KeyLists, json : BOOLEAN]
    /\ ures = NoUnsealResult

\* One run of the unseal command on an env file.
UnsealCommand ==
    /\ upc = "ready"
    /\ ures' = UnsealFromPaths(uin.envErr, uin.env, uin.priv, uin.keys, uin.json)
    /\ upc' = "done"
    /\ UNCHANGED <<uin, hVars, kpVars, stVars, cdVars, svVars, clVars>>

InitCommands ==
    \/ InitKeypair
    \/ /\ HandlerOff /\ KeypairOff /\ StoreOff /\ CodecOff /\ ServerOff /\ ClientOff
       /\ UnsealCommandInit
    \/ /\ HandlerOff /\ KeypairOff /\ UnsealOff /\ CodecOff /\ ServerOff /\ ClientOff
       /\ StoreInit({<<j>> : j \in SealJobs}, StoreFiles)

NextCommands ==
    \/ Keypair
    \/ UnsealCommand
    \/ NextStore

SpecCommands == InitCommands /\ [][NextCommands]_vars

\* ------------------------------------------------------------------------
\* The sealed-value codec: a value is built from two byte buffers and parsed
\* ------------------------------------------------------------------------

CodecBytes == {0, 58, 251, 255}
ByteBufs == SeqsUpTo(CodecBytes, MaxBuf)

CodecInit ==
    codec \in [pc : {"build"}, a : ByteBufs, b : ByteBufs, sealed : {<<>>},
               parsed : {[ok |-> FALSE, parts |-> <<>>]}]

Build ==
    /\ codec.pc = "build"
    /\ codec' = [codec EXCEPT !.pc = "parse", !.sealed = buildSealed(codec.a, codec.b)]
    /\ UNCHANGED <<hVars, kpVars, unVars, stVars, svVars, clVars>>

Parse ==
    /\ codec.pc = "parse"
    /\ codec' = [codec EXCEPT !.pc = "done", !.parsed = parseSealed(codec.sealed)]
    /\ UNCHANGED <<hVars, kpVars, unVars, stVars, svVars, clVars>>

InitCodec ==
    /\ HandlerOff /\ KeypairOff /\ UnsealOff /\ StoreOff /\ ServerOff /\ ClientOff
    /\ CodecInit

NextCodec == Build \/ Parse

SpecCodec == InitCodec /\ [][NextCodec]_vars

\* ------------------------------------------------------------------------
\* The server handling several requests at once
\* ------------------------------------------------------------------------

\* The names os.MkdirTemp may give, as many as there are requests.
DirNames == 1..MaxInv

\* peers records which requests had their directory when a request made
\* its own.
NoDir == [exists |-> FALSE, owner |-> 0, env |-> <<>>, link |-> FALSE]

\* The request maps of the concurrent requests (already validated): the
\* requests ask for different things, or all for the same.
ConcMaps ==
    <<(KeyA :> ValSealedP), (KeyB :> ValSealedQ),
      (KeyA :> ValSealedQ) @@ (KeyB :> ValPlain)>>

ConcRequests ==
    {[r \in 1..MaxInv |-> ConcMaps[((r + o) % Len(ConcMaps)) + 1]] : o \in 1..Len(ConcMaps)}
        \cup {[r \in 1..MaxInv |-> ConcMaps[1]]}

\* The server runs the direct branch or delegates to the built-in command.
ConcConfigs ==
    {[cmdArgs |-> <<>>, impl |-> "pqc", priv |-> "valid"],
     [cmdArgs |-> CmdBuiltin, impl |-> "pqc", priv |-> "valid"]}

ServerInit ==
    /\ creq \in ConcRequests
    /\ ccall = [r \in 1..MaxInv |->
                   [pc |-> "dispatch", dir |-> 0, peers |-> {},
                    out |-> [code |-> 0, out |-> <<>>],
                    resp |-> Response(0, <<>>, NoMsg)]]
    /\ tmpfs = [n \in DirNames |-> NoDir]
    /\ foreign = FALSE

\* Request q is between its os.MkdirTemp and its os.RemoveAll.
InDir(q) == ccall[q].pc \in {"writeEnv", "symlink", "run", "respond", "deferred"}

\* A faulty variant: the name is taken without a test that it is free.
AnyNames(fs) == DOMAIN fs

\* os.MkdirTemp creates a directory under a name that does not exist yet:
\* a name that is taken makes it try another.
FreshNames(fs) == {n \in DOMAIN fs : ~fs[n].exists}

SrvDispatch(r) ==
    /\ ccall[r].pc = "dispatch"
    /\ ccall' = [ccall EXCEPT ![r].pc = IF Len(cmdArgs) = 0 THEN "direct" ELSE "mkdir"]
    /\ UNCHANGED <<creq, tmpfs, foreign, hVars, kpVars, unVars, stVars, cdVars, clVars>>

\* handlePostDirectUnseal
SrvDirect(r) ==
    /\ ccall[r].pc = "direct"
    /\ ccall' = [ccall EXCEPT
                    ![r].pc = "returned",
                    ![r].resp = DirectResponse(unsealMapFunc(creq[r], privFile, <<>>),
                                               DOMAIN creq[r])]
    /\ UNCHANGED <<creq, tmpfs, foreign, hVars, kpVars, unVars, stVars, cdVars, clVars>>

\* tmpDir, err := os.MkdirTemp("", "ojster-")
SrvMkdirTemp(r) ==
    /\ ccall[r].pc = "mkdir"
    /\ \E n \in FreshNames(tmpfs) :
          /\ tmpfs' = [tmpfs EXCEPT ![n] = [exists |-> TRUE, owner |-> r,
                                            env |-> <<>>, link |-> FALSE]]
          /\ ccall' = [ccall EXCEPT ![r].pc = "writeEnv", ![r].dir = n,
                                    ![r].peers = {q \in DOMAIN ccall : InDir(q)}]
    /\ UNCHANGED <<creq, foreign, hVars, kpVars, unVars, stVars, cdVars, clVars>>

\* os.WriteFile(filepath.Join(tmpDir, ".env"), ...)
SrvWriteEnv(r) ==
    /\ ccall[r].pc = "writeEnv"
    /\ LET d == ccall[r].dir
       IN  IF tmpfs[d].exists
           THEN /\ \E order \in Orders(DOMAIN creq[r]) :
                      tmpfs' = [tmpfs EXCEPT ![d].env = EnvText(creq[r], order)]
                /\ foreign' = (foreign \/ tmpfs[d].owner # r)
                /\ ccall' = [ccall EXCEPT ![r].pc = "symlink"]
           ELSE /\ ccall' = [ccall EXCEPT
                                ![r].pc = "deferred",
                                ![r].resp = Response(500, <<>>,
                                                Msg("failed to write .env file", <<>>))]
                /\ UNCHANGED <<tmpfs, foreign>>
    /\ UNCHANGED <<creq, hVars, kpVars, unVars, stVars, cdVars, clVars>>

\* os.Symlink(privateKeyFile, filepath.Join(tmpDir, ".env.keys"))
SrvSymlink(r) ==
    /\ ccall[r].pc = "symlink"
    /\ LET d == ccall[r].dir
       IN  IF tmpfs[d].exists /\ ~tmpfs[d].link
           THEN /\ tmpfs' = [tmpfs EXCEPT ![d].link = TRUE]
                /\ foreign' = (foreign \/ tmpfs[d].owner # r)
                /\ ccall' = [ccall EXCEPT ![r].pc = "run"]
           ELSE /\ ccall' = [ccall EXCEPT
                                ![r].pc = "deferred",
                                ![r].resp = Response(500, <<>>,
                                                Msg("failed to create symlink to private key file", <<>>))]
                /\ UNCHANGED <<tmpfs, foreign>>
    /\ UNCHANGED <<creq, hVars, kpVars, unVars, stVars, cdVars, clVars>>

\* execCmd.Run() with execCmd.Dir = tmpDir: the built-in command reads
\* ./.env and ./.env.keys of the directory it is started in.
SrvRun(r) ==
    /\ ccall[r].pc = "run"
    /\ LET d == ccall[r].dir
       IN  IF tmpfs[d].exists
           THEN /\ ccall' = [ccall EXCEPT
                                ![r].pc = "respond",
                                ![r].out = UnsealFromFiles(
                                               tmpfs[d].env,
                                               IF tmpfs[d].link THEN privFile ELSE "absent",
                                               <<>>)]
                /\ foreign' = (foreign \/ tmpfs[d].owner # r)
           ELSE /\ ccall' = [ccall EXCEPT
                                ![r].pc = "deferred",
                                ![r].resp = RunErrResponse("start", FALSE)]
                /\ UNCHANGED foreign
    /\ UNCHANGED <<creq, tmpfs, hVars, kpVars, unVars, stVars, cdVars, clVars>>

\* The rest of handlePostSubprocessUnseal, after execCmd.Run returned.
SrvRespond(r) ==
    /\ ccall[r].pc = "respond"
    /\ ccall' = [ccall EXCEPT
                    ![r].pc = "deferred",
                    ![r].resp = SubprocessResponse(ccall[r].out, DOMAIN creq[r])]
    /\ UNCHANGED <<creq, tmpfs, foreign, hVars, kpVars, unVars, stVars, cdVars, clVars>>

\* defer func() { _ = os.RemoveAll(tmpDir) }()
SrvDefers(r) ==
    /\ ccall[r].pc = "deferred"
    /\ LET d == ccall[r].dir
       IN  /\ tmpfs' = [tmpfs EXCEPT ![d] = NoDir]
           /\ foreign' = (foreign \/ (tmpfs[d].exists /\ tmpfs[d].owner # r))
    /\ ccall' = [ccall EXCEPT ![r].pc = "returned"]
    /\ UNCHANGED <<creq, hVars, kpVars, unVars, stVars, cdVars, clVars>>

NextServer ==
    \/ \E r \in DOMAIN ccall : SrvDispatch(r)
    \/ \E r \in DOMAIN ccall : SrvDirect(r)
    \/ \E r \in DOMAIN ccall : SrvMkdirTemp(r)
    \/ \E r \in DOMAIN ccall : SrvWriteEnv(r)
    \/ \E r \in DOMAIN ccall : SrvSymlink(r)
    \/ \E r \in DOMAIN ccall : SrvRun(r)
    \/ \E r \in DOMAIN ccall : SrvRespond(r)
    \/ \E r \in DOMAIN ccall : SrvDefers(r)

InitServer ==
    /\ HandlerInit("off", {<<>>}, ConcConfigs)
    /\ KeypairOff /\ UnsealOff /\ StoreOff /\ CodecOff /\ ClientOff
    /\ ServerInit

\* The server with MaxInv requests in progress at once.
SpecServer == InitServer /\ [][NextServer]_vars

\* ------------------------------------------------------------------------
\* The direct branch on request maps with plain, sealed and single-quoted
\* sealed values
\* ------------------------------------------------------------------------

DirectValues == {ValPlain, ValSealedP, ValSealedQ, ValQuoted}

DirectMaps == UNION {[S -> DirectValues] : S \in SUBSET {KeyA, KeyB}}

DirectConfigs == {[cmdArgs |-> <<>>, impl |-> "pqc", priv |-> p] : p \in PrivFileStates}

InitDirect ==
    /\ HandlerInit("read", {Marshal(m) : m \in DirectMaps}, DirectConfigs)
    /\ KeypairOff /\ UnsealOff /\ StoreOff /\ CodecOff /\ ServerOff /\ ClientOff

NextDirect ==
    \/ ReadBody
    \/ ParseBody
    \/ ValidateKeys
    \/ Dispatch
    \/ DirectCall
    \/ DirectRespond

\* One request handled by a server without a configured command.
SpecDirect == InitDirect /\ [][NextDirect]_vars

\* ------------------------------------------------------------------------
\* client.Run: post the sealed entries of the environment, retry until a
\* reply is accepted, then execute the next program
\* ------------------------------------------------------------------------

\* const maxBackoff = 30 * time.Second, in seconds
maxBackoff == 30

Min(a, b) == IF a <= b THEN a ELSE b

\* for k := range reply { if _, ok := requested[k]; !ok { return true } }
hasUnexpectedKeys(replyMap, requested) ==
    \E k \in DOMAIN replyMap : k \notin requested

\* isSuccessfulReply(err, status, decodeErr, reply, requested)
isSuccessfulReply(err, st, decodeErr, replyMap, requested) ==
    /\ ~err
    /\ st >= 200 /\ st < 300
    /\ ~decodeErr
    /\ ~hasUnexpectedKeys(replyMap, requested)

\* A faulty variant: a reply is accepted whatever keys it has.
acceptAnyKeys(r, requested) ==
    IF r.err THEN FALSE
    ELSE IF r.status < 200 \/ r.status >= 300 THEN FALSE
    ELSE Unmarshal(r.body).ok

\* The value of accept at the end of one pass of Run's loop: a transport
\* error and a status outside 2xx are refused without decoding, then a body
\* that does not decode, then a reply with a key that was not requested.
accept(r, requested) ==
    IF r.err THEN FALSE
    ELSE IF r.status < 200 \/ r.status >= 300 THEN FALSE
    ELSE IF ~Unmarshal(r.body).ok THEN FALSE
    ELSE \A k \in DOMAIN Unmarshal(r.body).m : k \in requested

\* A faulty variant: the delay is doubled without a cap.
NextBackoffUncapped(b) == b * 2

\* *backoff = min(*backoff*2, maxBackoff)
NextBackoff(b) == Min(b * 2, maxBackoff)

\* What filterEnvByValue may give Run to send, the empty map included.
ClientRequests ==
    {<<>>, KeyA :> ValSealedP, (KeyA :> ValSealedP) @@ (KeyB :> ValQuoted)}

ReplyMaps == UNION {[S -> {PlainP}] : S \in SUBSET {KeyA, KeyB, KeyC}}

ReplyBodies ==
    {Marshal(m) : m \in ReplyMaps}
        \cup {<<>>, <<NullTok>>, <<Junk(1)>>, <<ArrayTok>>, <<LB, PairNum(KeyA), RB>>,
              <<LB, PairNull(KeyA), RB>>}

\* What postMapToServerJSON may return: nil, 0 and an error when the request
\* fails, else the status and the body read.
Replies ==
    {[err |-> TRUE, status |-> 0, body |-> <<>>]}
        \cup [err : {FALSE}, status : {199, 200, 299, 300, 502}, body : ReplyBodies]

ClientInit ==
    /\ rpc = "start"
    /\ nextArgs \in {<<>>, <<"bin">>}
    /\ requestMap \in ClientRequests
    /\ reply = NoReply
    /\ backoff = 0
    /\ newEnv = <<>>
    /\ slept = <<>>
    /\ sent = <<>>
    /\ execWith = NoExec
    /\ rret = -1

others == <<hVars, kpVars, unVars, stVars, cdVars, svVars>>

\* Run up to its loop: without a command or without anything to send it
\* returns 2.
RunStart ==
    /\ rpc = "start"
    /\ IF Len(nextArgs) < 1 \/ DOMAIN requestMap = {}
       THEN /\ rret' = 2
            /\ rpc' = "returned"
            /\ UNCHANGED backoff
       ELSE /\ backoff' = 1
            /\ rpc' = "post"
            /\ UNCHANGED rret
    /\ UNCHANGED <<nextArgs, requestMap, reply, newEnv, slept, sent, execWith, others>>

\* postMapToServerJSONFunc(socketPath, requestMap)
Post ==
    /\ rpc = "post"
    /\ reply' \in Replies
    /\ sent' = Append(sent, requestMap)
    /\ rpc' = "decide"
    /\ UNCHANGED <<nextArgs, requestMap, backoff, newEnv, slept, execWith, rret, others>>

\* The rest of one pass of the loop up to the break or the call of
\* retryWithBackoff.
Decide ==
    /\ rpc = "decide"
    /\ IF accept(reply, DOMAIN requestMap)
       THEN /\ newEnv' = Unmarshal(reply.body).m
            /\ rpc' = "lookPath"
       ELSE /\ rpc' = "retry"
            /\ UNCHANGED newEnv
    /\ UNCHANGED <<nextArgs, requestMap, reply, backoff, slept, sent, execWith, rret, others>>

\* retryWithBackoff(errw, &backoff, maxBackoff, ...)
RetryWithBackoff ==
    /\ rpc = "retry"
    /\ Len(slept) < MaxRetry
    /\ slept' = Append(slept, backoff)
    /\ backoff' = NextBackoff(backoff)
    /\ rpc' = "post"
    /\ UNCHANGED <<nextArgs, requestMap, reply, newEnv, sent, execWith, rret, others>>

\* buildExecEnv(newEnv) and lookPathFunc(nextBin): a command that is not
\* found makes Run return 2.
LookPath ==
    /\ rpc = "lookPath"
    /\ \/ /\ rpc' = "exec"
          /\ UNCHANGED rret
       \/ /\ rret' = 2
          /\ rpc' = "returned"
    /\ UNCHANGED <<nextArgs, requestMap, reply, backoff, newEnv, slept, sent, execWith, others>>

\* execFunc(nextBinPath, argv, mergedEnv): Run returns 1 when it fails, and
\* 0 when a stub of it returns.
Exec ==
    /\ rpc = "exec"
    /\ execWith' = [called |-> TRUE, env |-> newEnv]
    /\ rret' \in {0, 1}
    /\ rpc' = "returned"
    /\ UNCHANGED <<nextArgs, requestMap, reply, backoff, newEnv, slept, sent, others>>

InitClient ==
    /\ HandlerOff
    /\ KeypairOff /\ UnsealOff /\ StoreOff /\ CodecOff /\ ServerOff
    /\ ClientInit

NextClient ==
    \/ RunStart
    \/ Post
    \/ Decide
    \/ RetryWithBackoff
    \/ LookPath
    \/ Exec

\* One run of the client.
SpecClient == InitClient /\ [][NextClient]_vars

\* The same run, which does not stop while it has a step to take: every post
\* returns, within the 15 seconds of the http.Client's Timeout.
SpecClientLive == SpecClient /\ WF_vars(NextClient)

\* ------------------------------------------------------------------------
\* Properties
\* ------------------------------------------------------------------------

InTrace(e) == \E i \in 1..Len(trace) : trace[i] = e

\* The handler has written its response and is past the backend.
Responded == pc \in {"deferred", "returned"} /\ status # 0

\* The key names that occur in the request body.
BodyKeys == {body[i].k : i \in {j \in 1..Len(body) : IsMember(body[j])}}

\* A decryption backend has been invoked or prepared: the private key was
\* read, the in-process unseal was called, or the temporary directory, the
\* .env file, the symlink or the external command exist or existed.
DispatchHappened ==
    \/ backend # NoBackend
    \/ tmp # NoTmp
    \/ proc # "none"
    \/ \E e \in {"readKey", "backendReturned", "mkdirTemp", "writeEnv",
                 "symlink", "startCmd"} : InTrace(e)

\* The backend handed a map to the handler (no error, output decoded).
BackendReturnedMap ==
    /\ InTrace("backendReturned")
    /\ Len(cmdArgs) = 0 => backend.err = "nil"

\* C1: whenever the backend's map has a key that is not a key of the
\* request, in either branch, the response is 502 and carries no entry.
C1_UnexpectedKeyIs502 ==
    (/\ Responded
     /\ BackendReturnedMap
     /\ \E k \in DOMAIN outMap : k \notin DOMAIN incoming)
        => status = 502 /\ DOMAIN respBody = {}

C1_Witness ==
    /\ pc = "returned"
    /\ Len(cmdArgs) > 0
    /\ BackendReturnedMap
    /\ KeyA \in DOMAIN incoming
    /\ DOMAIN outMap = {KeyA, KeyX}

\* C2: the keys of a 200 body are exactly the request's keys that the
\* backend's map has, each with the backend's value; none is from outside
\* the request.
C2_BodyIsIntersection ==
    status = 200 =>
        /\ DOMAIN respBody = DOMAIN incoming \cap DOMAIN outMap
        /\ DOMAIN respBody \subseteq BodyKeys
        /\ \A k \in DOMAIN respBody : respBody[k] = outMap[k]

C2_Witness ==
    /\ status = 200
    /\ DOMAIN incoming = {KeyA, KeyB}
    /\ DOMAIN outMap = {KeyA}
    /\ DOMAIN respBody = {KeyA}

C4_WaitIsBounded ==
    /\ (pc = "wait" /\ proc = "killed") => ENABLED RunReturn
    /\ pc = "returned" => proc # "running"

\* The response of the direct branch to the request of this run.
DirectOutcome ==
    DirectResponse(unsealMapFunc(incoming, privFile, <<>>), DOMAIN incoming)

\* C5: the delegated branch running the built-in unseal command answers
\* as the direct branch answers the same request with the same private-key
\* file.  Stated for the runs in which the private key is valid, every file
\* operation succeeded and the command ran to its end before the deadline.
C5_Interchangeable ==
    (/\ pc = "returned"
     /\ cmdArgs = CmdBuiltin
     /\ privFile = "valid"
     /\ proc = "exited"
     /\ clock < TimeoutSecs)
        => /\ status = DirectOutcome.status
           /\ status = 200 => respBody = DirectOutcome.body

FirstAt(e) ==
    IF InTrace(e) THEN CHOOSE i \in 1..Len(trace) :
                           trace[i] = e /\ \A j \in 1..(i - 1) : trace[j] # e
    ELSE 0

\* C7: validation, dispatch and filtering happen in this order: whenever a
\* backend has been invoked or prepared, the body had been decoded and all
\* of its keys validated before; the filter runs only after the backend
\* has returned.
C7_PhasesInOrder ==
    /\ DispatchHappened =>
          /\ InTrace("parsed") /\ InTrace("validated")
          /\ \A i \in 1..Len(trace) :
                trace[i] \in {"readKey", "backendReturned", "mkdirTemp",
                              "writeEnv", "symlink", "startCmd", "filtered"}
                    => FirstAt("parsed") < FirstAt("validated") /\ FirstAt("validated") < i
          /\ requestedKeys = DOMAIN incoming
          /\ DOMAIN incoming \cap BadKeyNames = {}
    /\ InTrace("filtered") =>
          /\ InTrace("backendReturned")
          /\ FirstAt("backendReturned") < FirstAt("filtered")

C7_Witness ==
    /\ pc = "returned"
    /\ trace = <<"read", "parsed", "validated", "mkdirTemp", "writeEnv",
                 "symlink", "startCmd", "backendReturned", "filtered">>

\* C8: when the map left by the filter is empty the response is 502 with
\* the no-acceptable-entries message, so no 200 carries an empty map.
C8_EmptyResultIs502 ==
    /\ (/\ Responded
        /\ InTrace("filtered")
        /\ DOMAIN outMap \cap DOMAIN incoming = {}
        /\ DOMAIN outMap \subseteq DOMAIN incoming)
          => /\ status = 502
             /\ respErr.kind = "produced no acceptable env entries"
    /\ status = 200 => DOMAIN respBody # {}

C8_Witness ==
    /\ pc = "returned"
    /\ InTrace("filtered")
    /\ DOMAIN incoming = {KeyA}
    /\ DOMAIN outMap = {}
    /\ status = 502

\* The body is the text of a JSON object whose members all have string
\* values.
IsStringObject(toks) ==
    LET core == SelectSeq(toks, LAMBDA x : x.t # "ws")
    IN  /\ Len(core) >= 2
        /\ core[1] = LB
        /\ core[Len(core)] = RB
        /\ \A i \in 2..(Len(core) - 1) : core[i].t = "pair"

\* C9: a request whose body is no JSON object of strings, or is larger
\* than the cap, is answered 400 and no backend is invoked for it.
C9_BadBodyIs400 ==
    (~IsStringObject(body) \/ SizeOf(body) > maxBytes) =>
        /\ ~DispatchHappened
        /\ status \in {0, 400}

\* C10: a request with a key outside the key-name grammar is answered 400
\* and no backend is invoked for it, whatever else it holds and whichever
\* branch is configured.
C10_BadKeyIs400 ==
    (BodyKeys \cap BadKeyNames # {}) =>
        /\ ~DispatchHappened
        /\ status \in {0, 400}
        /\ pc = "returned" => status = 400

C10_Witness ==
    /\ pc = "returned"
    /\ BodyKeys = {KeyA, KeyDash}
    /\ Len(cmdArgs) > 0
    /\ status = 400
    /\ respErr = Msg("invalid key name in request", KeyDash)

\* regexp.MustCompile(`^[A-Za-z_][A-Za-z0-9_]*$`).MatchString(k), the
\* pattern of the earlier server's keyNameRegex.
LooseKeyName(k) ==
    /\ Len(k) >= 1
    /\ k[1] \in Upper \cup Lower \cup {"_"}
    /\ \A i \in 2..Len(k) : k[i] \in Upper \cup Lower \cup Digit \cup {"_"}

\* C11: a request whose keys all match ^[A-Za-z_][A-Za-z0-9_]*$, lower-case
\* letters included, is not rejected for an invalid key name.
C11_LooseGrammarAccepted ==
    (BodyKeys # {} /\ \A k \in BodyKeys : LooseKeyName(k)) =>
        ~(status = 400 /\ respErr.kind = "invalid key name in request")

\* C12: in the direct branch a private key that cannot be loaded (file
\* unreadable, not base64, not a key) is answered 500 with the cause of the
\* failure, whatever the request holds.
C12_KeyLoadFailureIs500 ==
    (/\ pc = "returned"
     /\ Len(cmdArgs) = 0
     /\ unsealImpl = "pqc"
     /\ privFile # "valid"
     /\ InTrace("readKey"))
        => /\ status = 500
           /\ respErr = loadDecapsulationKey(privFile).msg
           /\ respBody = <<>>

C12_Witness ==
    /\ pc = "returned"
    /\ Len(cmdArgs) = 0
    /\ unsealImpl = "pqc"
    /\ privFile = "badkey"
    /\ incoming = SealedA
    /\ status = 500

\* The request values that are sealed by their prefix and fail to decrypt,
\* and the cause each of them fails with.
FailValues == {ValMalformed, ValBadKem, ValBadBlob, ValWrongSize, ValOtherKey}

ValueCause(v) ==
    IF v = ValMalformed THEN "sealed value malformed"
    ELSE IF v = ValBadKem THEN "invalid base64 mlkem ciphertext"
    ELSE IF v = ValBadBlob THEN "invalid base64 gcm blob"
    ELSE IF v = ValWrongSize THEN "decapsulation failed"
    ELSE "decryption failed"

\* C13: in the direct branch, with the private key loaded, a value that
\* fails to decrypt is answered 502 with the cause and the key of a failing
\* value; so is every ErrUnseal of a replaced unsealMapFunc.
C13_ValueFailureIs502 ==
    /\ (/\ pc = "returned"
        /\ Len(cmdArgs) = 0
        /\ unsealImpl = "pqc"
        /\ privFile = "valid"
        /\ InTrace("readKey")
        /\ \E k \in DOMAIN incoming : incoming[k] \in FailValues)
          => /\ status = 502
             /\ \E k \in DOMAIN incoming :
                   /\ incoming[k] \in FailValues
                   /\ respErr = Msg(ValueCause(incoming[k]), k)
    /\ (/\ pc = "returned"
        /\ Len(cmdArgs) = 0
        /\ backend.err = "ErrUnseal")
          => status = 502 /\ respErr = backend.msg

C13_Witness ==
    /\ pc = "returned"
    /\ Len(cmdArgs) = 0
    /\ unsealImpl = "pqc"
    /\ incoming = (KeyA :> ValSealedP) @@ (KeyB :> ValOtherKey)
    /\ status = 502
    /\ respErr = Msg("decryption failed", KeyB)

\* The delegated branch has written its response.
SubprocessResponded == Len(cmdArgs) > 0 /\ Responded

\* C14: when the command was killed at the deadline, or Run returned the
\* context's error, the response is 504 "subprocess timed out", not the 502
\* of an exit error nor the 500 of a start failure.
C14_TimeoutIs504 ==
    (SubprocessResponded /\ (proc = "killed" \/ runErr = "ctx"))
        => status = 504 /\ respErr.kind = "subprocess timed out"

C14_Witness ==
    /\ pc = "returned"
    /\ proc = "killed"
    /\ runErr = "ExitError"
    /\ clock >= TimeoutSecs
    /\ respErr.kind = "subprocess timed out"

\* C15: a command that exited with a non-zero status before the deadline
\* is answered 502 "subprocess failed", and nothing of its output is used.
C15_ExitErrorIs502 ==
    (SubprocessResponded /\ proc = "exited" /\ exit.code # 0 /\ ~exit.late)
        => /\ status = 502
           /\ respErr.kind = "subprocess failed"
           /\ respBody = <<>>
           /\ outMap = <<>>

\* C16: a command that could not be started is answered 500 "failed to run
\* subprocess".
C16_StartFailureIs500 ==
    (SubprocessResponded /\ runErr = "start")
        => /\ status = 500
           /\ respErr.kind = "failed to run subprocess"
           /\ proc = "none"

C16_Witness ==
    /\ pc = "returned"
    /\ InTrace("startCmd")
    /\ runErr = "start"
    /\ status = 500
    /\ tmp.dir = "removed"

\* C17: a command that exited with status 0 before the deadline and whose
\* output is no JSON object of strings is answered 502.
C17_BadStdoutIs502 ==
    (/\ SubprocessResponded
     /\ proc = "exited"
     /\ exit.code = 0
     /\ ~exit.late
     /\ ~IsStringObject(exit.out))
        => status = 502

\* The stored values that are sealed by their prefix, and the plaintext of
\* those that decrypt under the valid private key.
IsSealedValue(v) == v \in {ValSealedP, ValSealedQ, ValMalformed}

PlainOf(v) == IF v = ValSealedP THEN PlainP ELSE PlainQ

SealedKeys == {k \in DOMAIN uin.env : IsSealedValue(uin.env[k])}

IsAscending(o) == \A i \in 1..(Len(o) - 1) : StrLess(o[i], o[i + 1])

\* The lines KEY=plaintext for the keys of o, in the order of o.
RECURSIVE ExpectedText(_)
ExpectedText(o) ==
    IF o = <<>> THEN <<>>
    ELSE Head(o) \o <<"=">> \o PlainOf(uin.env[Head(o)])
             \o (IF Len(o) = 1 THEN <<>> ELSE <<"\n">> \o ExpectedText(Tail(o)))

\* The unseal command has run with a loadable private key and no keys given.
SelectAllDone == upc = "done" /\ uin.priv = "valid" /\ uin.keys = <<>>

C20_MissingKeysSorted ==
    LET missing == {k \in Range(uin.keys) : k \notin DOMAIN uin.env}
    IN  (upc = "done" /\ uin.priv = "valid" /\ missing # {}) =>
            /\ ures.code = 2
            /\ ures.out = <<>>
            /\ ures.err.kind = "missing keys"
            /\ Range(ures.err.key) = missing
            /\ \A i, j \in 1..Len(ures.err.key) :
                  i < j => ~StrLess(ures.err.key[j], ures.err.key[i])

\* The keys unseal works on, in the order it takes them: the keys given, or
\* with none given the keys whose stored value has the prefix, ascending.
Selection ==
    IF uin.keys = <<>>
    THEN SortStrings({k \in DOMAIN uin.env : HasPrefix(uin.env[k], prefix)})
    ELSE uin.keys

\* The first step a stored value fails, "" if it decrypts: the sealed test,
\* the split, the base64 of the KEM part, the base64 of the AEAD part, the
\* decapsulation, the decryption.
FirstFailingStep(v) ==
    IF v \in {ValPlain, ValQuoted} THEN "does not appear to be sealed"
    ELSE IF v \in {ValMalformed, ValPrefixOnly} THEN "sealed value malformed"
    ELSE LET ct == CHOOSE c \in StepKems : \E b \in StepBlobs : v = Sealed(c, b)
             blob == CHOOSE b \in StepBlobs : v = Sealed(ct, b)
         IN  IF ct = BadB64 THEN "invalid base64 mlkem ciphertext"
             ELSE IF blob \in {BadB64, BlobWithSep} THEN "invalid base64 gcm blob"
             ELSE IF ct = KemShort THEN "decapsulation failed"
             ELSE IF ct = CtOther \/ blob = BlobShort THEN "decryption failed"
             ELSE ""

\* C21: when a selected key fails a step, unseal exits with 1, writes no
\* output, and its message names the first key in selection order that fails
\* and the first step that key fails, the steps taken in the order sealed
\* test, split, KEM base64, AEAD base64, decapsulation, decryption.
C21_FirstFailureNamed ==
    (/\ upc = "done"
     /\ uin.priv = "valid"
     /\ Range(Selection) \subseteq DOMAIN uin.env
     /\ \E i \in 1..Len(Selection) : FirstFailingStep(uin.env[Selection[i]]) # "")
        => LET failing == {i \in 1..Len(Selection) :
                              FirstFailingStep(uin.env[Selection[i]]) # ""}
               first == CHOOSE i \in failing : \A j \in failing : i <= j
           IN  /\ ures.code = 1
               /\ ures.out = <<>>
               /\ ures.err = Msg(FirstFailingStep(uin.env[Selection[first]]),
                                 Selection[first])

C21_Witness ==
    /\ upc = "done"
    /\ uin.priv = "valid"
    /\ uin.keys = <<KeyB, KeyA>>
    /\ uin.env = (KeyA :> Sealed(KemShort, BadB64)) @@ (KeyB :> Sealed(CtOther, BlobP))
    /\ ures.code = 1
    /\ ures.err = Msg("decryption failed", KeyB)

\* C22: in line mode a successful unseal writes one KEY=VALUE line for each
\* selected key and nothing else, the lines in selection order: ascending
\* with no keys given, else the order the keys were given in.
C22_LinePerSelectedKey ==
    (upc = "done" /\ uin.priv = "valid" /\ ~uin.json /\ ures.code = 0)
        => ures.out = ExpectedText(Selection)

C22_Witness ==
    /\ upc = "done"
    /\ uin.priv = "valid"
    /\ ~uin.json
    /\ uin.keys = <<KeyB, KeyA>>
    /\ uin.env = (KeyA :> ValSealedP) @@ (KeyB :> ValSealedQ) @@ (KeyC :> ValSealedP)
    /\ ures.out = <<"B", "=", "q", "\n", "A", "=", "p">>

\* The values among the stored ones that were built from two well-formed
\* base64 parts.
BuiltValues ==
    {Sealed(ct, blob) : ct \in {CtGood, CtOther, KemShort}, blob \in {BlobP, BlobShort}}

\* C24: a stored value counts as sealed exactly if, one optional layer of
\* surrounding single quotes stripped, it starts with the prefix.  With no
\* keys given unseal works on exactly the keys whose value is sealed in this
\* sense; with keys given it reports a value as not sealed only if it is not
\* sealed in this sense; and the predicate and the detection pattern both
\* accept the bare and the single-quoted form of every built value.
C24_SealedPredicate ==
    LET sealedKeys == {k \in DOMAIN uin.env : IsSealed(uin.env[k])}
    IN  /\ (upc = "done" /\ uin.priv = "valid" /\ uin.keys = <<>> /\ uin.json)
              => IF ures.code = 0
                 THEN DOMAIN Unmarshal(ures.out).m = sealedKeys
                 ELSE ures.err.key \in sealedKeys
        /\ (/\ upc = "done"
            /\ uin.priv = "valid"
            /\ ures.err.kind = "does not appear to be sealed")
              => ~IsSealed(uin.env[ures.err.key])
        /\ \A v \in BuiltValues :
              LET quoted == <<"'">> \o v \o <<"'">>
              IN  /\ IsSealed(v) /\ DefaultValueRegex(v)
                  /\ IsSealed(quoted) /\ DefaultValueRegex(quoted)

\* The stored values the codec cannot parse: the prefix is not at the start,
\* or what follows it has no separator.
ParseFails(v) == v \in {ValQuoted, ValMalformed, ValPrefixOnly}

\* C25: a selected sealed value that cannot be parsed (its prefix is missing,
\* or the text after the prefix does not split at the first separator into
\* two parts) makes unseal exit with 1 and the malformed-value message
\* naming its key; and base64 decoding and the later steps are reached only
\* for a value that split into two parts.
C25_MalformedBeforeDecoding ==
    (/\ upc = "done"
     /\ uin.priv = "valid"
     /\ Selection # <<>>
     /\ Range(Selection) \subseteq DOMAIN uin.env)
        => LET k == Selection[1]
               v == uin.env[k]
           IN  /\ (IsSealed(v) /\ ParseFails(v))
                    => /\ ures.code = 1
                       /\ ures.err = Msg("sealed value malformed", k)
               /\ (ures.code = 0 \/ ures.err.kind \in
                       {"invalid base64 mlkem ciphertext", "invalid base64 gcm blob",
                        "decapsulation failed", "decryption failed"})
                    => \A i \in 1..Len(Selection) :
                          (ures.code = 0 \/ Selection[i] = ures.err.key)
                              => ~ParseFails(uin.env[Selection[i]])

\* C26: whatever two byte buffers a and b a sealed value is built from,
\* parsing it succeeds and yields the base64 text of a and the base64 text
\* of b, in this order.
C26_BuildParseInverse ==
    codec.pc = "done" =>
        /\ codec.parsed.ok
        /\ codec.parsed.parts = <<B64Encode(codec.a), B64Encode(codec.b)>>

\* Built from the bytes FB FF and the byte of the separator, and parsed.
C26_Witness ==
    /\ codec.pc = "done"
    /\ codec.a = <<251, 255>>
    /\ codec.b = <<58>>
    /\ codec.sealed = prefix \o <<"+", "/", "8", "=">> \o sep \o <<"O", "g", "=", "=">>
    /\ codec.parsed.parts = <<<<"+", "/", "8", "=">>, <<"O", "g", "=", "=">>>>


\* The one call of a run with a single caller, and what it was to do.
TheJob == ejob[1]
TheCall == ecall[1]

ParsedBefore == IF efile0.kind = "file" THEN ParseEnvFile(efile0.content) ELSE <<>>
ParsedNow == IF efile.kind = "file" THEN ParseEnvFile(efile.content) ELSE <<>>

\* C28: after UpdateEnvFile(path, key, value) has succeeded, parsing the
\* file yields value for key, and for every other key what it yielded
\* before (no other key comes or goes).
C28_UpdateSetsKeyKeepsOthers ==
    (/\ Len(ejob) = 1 /\ TheJob.op = "update"
     /\ TheCall.pc = "done" /\ TheCall.code = 0)
        => /\ TheJob.key \in DOMAIN ParsedNow
           /\ ParsedNow[TheJob.key] = TheJob.value
           /\ DOMAIN ParsedNow \ {TheJob.key} = DOMAIN ParsedBefore \ {TheJob.key}
           /\ \A k \in DOMAIN ParsedBefore \ {TheJob.key} :
                 ParsedNow[k] = ParsedBefore[k]


\* A reader saw the complete old file or a complete file that one of the
\* calls wrote.
SeenComplete(f) ==
    \/ f.kind = efile0.kind /\ f.content = efile0.content
    \/ /\ f.kind = "file"
       /\ \E c \in DOMAIN ecall :
             /\ ecall[c].pc \in {"chmod", "done"}
             /\ ejob[c].key \in DOMAIN ParseEnvFile(f.content)
             /\ ParseEnvFile(f.content)[ejob[c].key] = ecall[c].value

\* C29: when two calls of UpdateEnvFile on the same path, for different
\* keys, ran at once and both reported success, the file holds the entry of
\* the one and the entry of the other; and whatever a concurrent reader saw
\* was the complete old file or a complete new one.
C29_ConcurrentUpdatesBothKept ==
    /\ (/\ Len(ejob) = 2 /\ ejob[1].key # ejob[2].key
        /\ \A c \in {1, 2} : ecall[c].pc = "done" /\ ecall[c].code = 0)
           => \A c \in {1, 2} :
                 /\ ejob[c].key \in DOMAIN ParsedNow
                 /\ ParsedNow[ejob[c].key] = ecall[c].value
    /\ Len(ejob) = 2 => \A f \in eseen : SeenComplete(f)


\* The run of the unseal command was given a key that its source lacks.
RequestedKeyMissing == \E i \in 1..Len(uin.keys) : uin.keys[i] \notin DOMAIN uin.env

\* The exit codes of keypair and of seal: 0 or 1, and 0 exactly when no
\* step failed.
KeypairSealCodes ==
    /\ kpc = "done" =>
          /\ kres.code \in {0, 1}
          /\ kres.code = 0 <=> (kres.privErr = "nil" /\ kres.pubErr = "nil")
    /\ \A c \in DOMAIN ecall :
          (ejob[c].op = "seal" /\ ecall[c].pc = "done") =>
              /\ ecall[c].code \in {0, 1}
              /\ ecall[c].code = 0 <=> ecall[c].err = "nil"

\* The exit code of unseal is 0, 1 or 2, and 0 exactly when nothing failed.
UnsealCodes ==
    upc = "done" =>
        /\ ures.code \in {0, 1, 2}
        /\ ures.code = 0 <=> ures.err = NoMsg

\* C23 as stated: every run of keypair, seal and unseal returns 0, 1 or 2;
\* 0 exactly on success, 2 exactly when a key given to unseal is missing
\* from the source, and 1 for every other failure.
C23_ExitCodes ==
    /\ KeypairSealCodes
    /\ UnsealCodes
    /\ upc = "done" => (ures.code = 2 <=> RequestedKeyMissing)

\* C23, amended: 2 exactly when the private key could be loaded, the env
\* file could be read and a key given to unseal is missing from it; a
\* private key or an env file that cannot be read is exit 1 whatever the
\* keys are.
C23_ExitCodesKeyLoadedFirst ==
    /\ KeypairSealCodes
    /\ UnsealCodes
    /\ upc = "done" =>
          (ures.code = 2 <=>
              (uin.priv = "valid" /\ ~uin.envErr /\ RequestedKeyMissing))

\* Unseal with a usable private key and a key the source lacks exited 2.
C23_Witness ==
    /\ upc = "done"
    /\ uin.priv = "valid"
    /\ ~uin.envErr
    /\ RequestedKeyMissing
    /\ ures.code = 2
    /\ ures.err.kind = "missing keys"


\* The responses a request with map m gets when it is the only one.
AloneResponses(m) ==
    IF Len(cmdArgs) = 0
    THEN {DirectResponse(unsealMapFunc(m, privFile, <<>>), DOMAIN m)}
    ELSE {SubprocessResponse(UnsealFromFiles(EnvText(m, order), privFile, <<>>),
                             DOMAIN m) : order \in Orders(DOMAIN m)}

\* C30: however the requests in progress are interleaved, each of them that
\* delegates has a temporary directory of its own, none writes, reads or
\* removes anything in the directory of another, and each returns a
\* response it would return if it were the only request.
C30_RequestsIsolated ==
    /\ ~foreign
    /\ \A r1, r2 \in DOMAIN ccall :
          (r1 # r2 /\ InDir(r1) /\ InDir(r2)) => ccall[r1].dir # ccall[r2].dir
    /\ \A r \in DOMAIN ccall :
          InDir(r) => tmpfs[ccall[r].dir].exists /\ tmpfs[ccall[r].dir].owner = r
    /\ \A r \in DOMAIN ccall :
          ccall[r].pc = "returned" => ccall[r].resp \in AloneResponses(creq[r])

\* Two requests with different maps were delegated at the same time, each in
\* its own directory, and both were answered 200 with their own value.
C30_Witness ==
    /\ cmdArgs = CmdBuiltin
    /\ Len(ccall) >= 2
    /\ creq[1] = (KeyA :> ValSealedP) /\ creq[2] = (KeyB :> ValSealedQ)
    /\ ccall[2].peers = {1}
    /\ ccall[1].dir # ccall[2].dir
    /\ ccall[1].pc = "returned" /\ ccall[2].pc = "returned"
    /\ ccall[1].resp = Response(200, KeyA :> PlainP, NoMsg)
    /\ ccall[2].resp = Response(200, KeyB :> PlainQ, NoMsg)


\* C36: whenever KeypairWithPaths returns a non-zero exit code, the private
\* key it generated is not at privPath, whichever step failed.
C36_NoPrivateKeyAfterFailure ==
    (kpc = "done" /\ kres.code # 0)
        => ~(kfs[kpaths.priv].kind = "file" /\ kfs[kpaths.priv].content = "priv")


\* C39: when SealWithPlaintext has returned a non-zero exit code, whatever
\* step failed, the file at outPath is there or not as before and has the
\* content it had before the call.
C39_FailedSealLeavesFile ==
    (/\ Len(ejob) = 1 /\ TheJob.op = "seal"
     /\ TheCall.pc = "done" /\ TheCall.code # 0)
        => /\ efile.kind = efile0.kind
           /\ efile.content = efile0.content

\* C38: a handlePost invocation never writes more than one response; once
\* it has returned it has written exactly one, with status 200, 400, 500,
\* 502 or 504; and 200 is written only after the body was decoded, every
\* key name validated, the backend returned a map without error and the
\* filter left at least one entry.
C38_OneResponse ==
    /\ writes <= 1
    /\ pc = "returned" =>
          /\ writes = 1
          /\ status \in {200, 400, 500, 502, 504}
    /\ status = 200 =>
          /\ InTrace("parsed")
          /\ InTrace("validated")
          /\ BackendReturnedMap
          /\ InTrace("filtered")
          /\ DOMAIN respBody # {}

\* A request answered 200 by the delegated branch, and returned.
C38_Witness ==
    /\ pc = "returned"
    /\ Len(cmdArgs) > 0
    /\ writes = 1
    /\ status = 200
    /\ DOMAIN respBody = {KeyA}

\* How often an event occurs in the trace.
Count(e) == Cardinality({i \in 1..Len(trace) : trace[i] = e})

\* C33: within one handlePost invocation the decryption backend is invoked
\* at most once (the in-process unseal in the direct branch, the external
\* command in the delegated branch, never both), and once it has failed the
\* invocation answers with an error status and invokes nothing again.
C33_BackendInvokedOnce ==
    /\ Count("startCmd") + Count("readKey") <= 1
    /\ Len(cmdArgs) = 0 => Count("backendReturned") <= 1 /\ Count("startCmd") = 0
    /\ Len(cmdArgs) > 0 => Count("readKey") = 0
    /\ (pc = "returned" /\ runErr # "nil") => status \in {500, 502, 504}
    /\ (pc = "returned" /\ backend.err \notin {"unset", "nil"}) => status \in {500, 502}

\* The command could not be started: one attempt, answered 500.
C33_Witness ==
    /\ pc = "returned"
    /\ runErr = "start"
    /\ Count("startCmd") = 1
    /\ status = 500


\* The keys of the request whose value is sealed.
SealedRequestKeys == {k \in DOMAIN incoming : IsSealed(incoming[k])}

\* C35: in the direct branch with a usable private key, a 200 response has
\* exactly the request keys whose value is sealed (a key with a plain value
\* is left out without an error), and a request without any sealed value is
\* answered 502 for an empty result.
C35_DirectReturnsSealedKeys ==
    (Len(cmdArgs) = 0 /\ unsealImpl = "pqc" /\ privFile = "valid") =>
        /\ status = 200 => DOMAIN respBody = SealedRequestKeys
        /\ (pc = "returned" /\ InTrace("validated") /\ SealedRequestKeys = {})
              => /\ status = 502
                 /\ respErr.kind = "produced no acceptable env entries"


\* C37: unseal is all or nothing: when a selected key fails or a requested
\* key is missing, nothing is written to the output, the keys decrypted before
\* the failing one included, and UnsealMap on the same source returns no map.
C37_AllOrNothing ==
    (upc = "done" /\ ures.code # 0)
        => /\ ures.out = <<>>
           /\ UnsealMap(uin.env, uin.priv, uin.keys).code = ures.code
           /\ UnsealMap(uin.env, uin.priv, uin.keys).out = <<>>

C37_Witness ==
    /\ upc = "done"
    /\ uin.priv = "valid"
    /\ uin.keys = <<KeyA, KeyB>>
    /\ uin.env = (KeyA :> Sealed(CtGood, BlobP)) @@ (KeyB :> Sealed(CtOther, BlobP))
    /\ decryptOne(KeyA, uin.env[KeyA]).ok
    /\ ures.code = 1
    /\ ures.err = Msg("decryption failed", KeyB)
    /\ ures.out = <<>>


\* C31: unsealing changes nothing it reads: a run of the unseal command
\* leaves the env file as it was, and a run on a map leaves the map and the
\* sealed values in it as they were, whether the run succeeds or fails.
C31_UnsealReadOnly ==
    [][/\ eback' # eback => efile' = efile
       /\ ures' # ures => uin' = uin
       /\ backend' # backend => (incoming' = incoming /\ data' = data)]_vars

\* The unseal command has failed on a file with a sealed entry for A and a
\* plain entry for B, and the file still has both.
C31_Witness ==
    /\ Len(ejob) = 2
    /\ eback.ran /\ eback.res.code = 1
    /\ eback.res.err = Msg("does not appear to be sealed", KeyB)
    /\ efile.kind = "file"
    /\ KeyA \in DOMAIN ParseEnvFile(efile.content)
    /\ IsSealed(ParseEnvFile(efile.content)[KeyA])
    /\ ParseEnvFile(efile.content)[KeyB] = ValPlain


\* C32: no step of handling a request changes or removes the private-key
\* file, in either branch and on every way out; the step that removes the
\* temporary directory takes the .env.keys link away and leaves the file.
C32_KeyFileUntouched ==
    [][/\ privFile' = privFile
       /\ (tmp.link /\ ~tmp'.link) => (tmp'.dir = "removed" /\ privFile' = privFile)]_vars

\* A delegated request has been answered 200 and its directory, which held
\* the link, is gone while the key file is there.
C32_Witness ==
    /\ pc = "returned"
    /\ Len(cmdArgs) > 0
    /\ InTrace("symlink")
    /\ tmp.dir = "removed"
    /\ ~tmp.link
    /\ privFile = "valid"
    /\ status = 200


\* The last reply has a 2xx status, decodes as a map of strings and has no
\* key that was not requested.
ReplyAcceptable ==
    /\ ~reply.err
    /\ reply.status \in 200..299
    /\ Unmarshal(reply.body).ok
    /\ DOMAIN Unmarshal(reply.body).m \subseteq DOMAIN requestMap

\* Run has left its loop.
PastLoop == rpc \in {"lookPath", "exec"} \/ (rpc = "returned" /\ sent # <<>>)

\* C34: Run goes on to execute the next program only with a reply that has a
\* 2xx status, decodes as a map of strings and has no key outside the ones
\* requested, and it executes with that reply's map; after any other reply
\* (transport error, other status, undecodable body, unexpected key) it does
\* not execute but sleeps and posts again, and every post carries the same
\* request map.
C34_ExecOnlyAfterAcceptableReply ==
    /\ PastLoop => (ReplyAcceptable /\ newEnv = Unmarshal(reply.body).m)
    /\ execWith.called => (PastLoop /\ execWith.env = Unmarshal(reply.body).m)
    /\ (rpc \in {"decide", "retry", "post"}) => (~execWith.called /\ rret = -1)
    /\ (rpc = "retry") => ~ReplyAcceptable
    /\ \A i \in 1..Len(sent) : sent[i] = requestMap
    /\ (rpc \in {"decide", "retry"} \/ PastLoop) => Len(sent) = Len(slept) + 1
    /\ (rpc = "post") => Len(sent) = Len(slept)
    /\ (rpc = "decide") =>
          accept(reply, DOMAIN requestMap)
              = isSuccessfulReply(reply.err, reply.status, ~Unmarshal(reply.body).ok,
                                  Unmarshal(reply.body).m, DOMAIN requestMap)

\* After four refused replies the fifth, a map with one of the two requested
\* keys, was accepted and the program executed with it.
C34_Witness ==
    /\ rpc = "returned"
    /\ rret = 0
    /\ DOMAIN requestMap = {KeyA, KeyB}
    /\ Len(sent) = 5
    /\ slept = <<1, 2, 4, 8>>
    /\ reply.status = 299
    /\ execWith.called
    /\ execWith.env = (KeyA :> PlainP)

\* The delay before each retry so far is min(2^(n-1), 30) seconds.
DelaysOk ==
    /\ \A n \in 1..Len(slept) : slept[n] = Min(2 ^ (n - 1), maxBackoff)
    /\ slept # <<>> => slept[1] = 1
    /\ \A n \in 1..Len(slept) : slept[n] <= 30
    /\ \A n \in 2..Len(slept) : slept[n] >= slept[n - 1]

\* C40: the delay before the n-th retry is min(2^(n-1), 30) seconds (the
\* first 1 second, none below the one before, none above 30); the loop is
\* left only with an acceptable reply, Run never gives up inside it, a
\* refused reply leads to a further post, and an acceptable reply leads to
\* the part of Run that looks up and executes the program.
C40_BackoffAndLoopExit ==
    /\ [](DelaysOk /\ (PastLoop => ReplyAcceptable))
    /\ ((rpc = "decide" /\ ReplyAcceptable) ~> PastLoop)
    /\ \A n \in 0..(MaxRetry - 1) :
          (rpc = "decide" /\ ~ReplyAcceptable /\ Len(slept) = n)
              ~> (rpc = "post" /\ Len(slept) = n + 1)

\* The reply to the post after the seventh retry was accepted.
C40_Witness ==
    /\ rpc = "lookPath"
    /\ slept = <<1, 2, 4, 8, 16, 30, 30>>
    /\ Len(sent) = 8
    /\ ReplyAcceptable


====
